---- MODULE Spec2Model ----
(***************************************************************************)
(* A model of datetime_tz (src/datetime_tz/__init__.py): the zone-aware    *)
(* datetime value, the local-zone detection cascade and its process-wide   *)
(* cache, the relative-time parser and the range iterator.                 *)
(*                                                                         *)
(* Time is counted in seconds of wall clock since 2012-01-01T00:00:00,     *)
(* with the microsecond kept beside it.  A datetime is a record            *)
(*   [cls, s, us, tzinfo, is_dst]                                          *)
(* and a tzinfo object is a record [zone, rule, utcoffset, dst]: the zone  *)
(* name, the zone's rule table and the offsets of the period the object    *)
(* stands for (pytz keeps one tzinfo object per period of a zone).         *)
(***************************************************************************)
EXTENDS Integers, Sequences, FiniteSets, TLC

VARIABLES
  env,           \* what the process sees of its machine (os.environ, /etc, time.*)
  _localtz,      \* the module global _localtz (line 107)
  tzinfo_cache,  \* the entries of pytz._tzinfo_cache that are not catalog zones
  clock,         \* the current instant, in seconds of UTC
  op,            \* the operation that ran last
  res,           \* what the last operation returned or raised
  val,           \* the datetime_tz value the program holds
  log,           \* the record of detections, warnings and calls
  gen            \* the state of the iterate.between generator

vars == <<env, _localtz, tzinfo_cache, clock, op, res, val, log, gen>>

(***************************************************************************)
(* Python's proleptic Gregorian calendar (datetime's date arithmetic).     *)
(***************************************************************************)
DAYS_IN_MONTH == <<31, 28, 31, 30, 31, 30, 31, 31, 30, 31, 30, 31>>

DAYS_BEFORE_MONTH == <<0, 31, 59, 90, 120, 151, 181, 212, 243, 273, 304, 334>>

is_leap(year) == year % 4 = 0 /\ (year % 100 # 0 \/ year % 400 = 0)

days_before_year(year) ==
  LET y == year - 1 IN y * 365 + (y \div 4) - (y \div 100) + (y \div 400)

days_in_month(year, month) ==
  IF month = 2 /\ is_leap(year) THEN 29 ELSE DAYS_IN_MONTH[month]

days_before_month(year, month) ==
  DAYS_BEFORE_MONTH[month] + (IF month > 2 /\ is_leap(year) THEN 1 ELSE 0)

ymd2ord(year, month, day) ==
  days_before_year(year) + days_before_month(year, month) + day

ord2ymd(ordinal) ==
  LET n0   == ordinal - 1
      n400 == n0 \div 146097
      r400 == n0 % 146097
      n100 == r400 \div 36524
      r100 == r400 % 36524
      n4   == r100 \div 1461
      r4   == r100 % 1461
      n1   == r4 \div 365
      n    == r4 % 365
      year == n400 * 400 + 1 + n100 * 100 + n4 * 4 + n1
      leapyear == n1 = 3 /\ (n4 # 24 \/ n100 = 3)
      lp(m) == IF m > 2 /\ leapyear THEN 1 ELSE 0
      m0   == (n + 50) \div 32
      month == IF DAYS_BEFORE_MONTH[m0] + lp(m0) > n THEN m0 - 1 ELSE m0
      preceding == DAYS_BEFORE_MONTH[month] + lp(month)
  IN IF n1 = 4 \/ n100 = 4
       THEN [year |-> year - 1, month |-> 12, day |-> 31]
       ELSE [year |-> year, month |-> month, day |-> n - preceding + 1]

\* The ordinal of the day on which the model's second 0 falls (2012-01-01).
EpochOrd == ymd2ord(2012, 1, 1)

\* The calendar fields of a wall-clock count of seconds: timetuple()[0:6].
timetuple(s) ==
  LET d   == ord2ymd(EpochOrd + (s \div 86400))
      sod == s % 86400
  IN [year |-> d.year, month |-> d.month, day |-> d.day,
      hour |-> sod \div 3600, minute |-> (sod % 3600) \div 60, second |-> sod % 60]

\* datetime.datetime(year, ..., second) accepts only fields in range.
fields_valid(f, us) ==
  /\ f.year \in 1..9999
  /\ f.month \in 1..12
  /\ f.day >= 1
  /\ f.day <= days_in_month(f.year, f.month)
  /\ f.hour \in 0..23
  /\ f.minute \in 0..59
  /\ f.second \in 0..59
  /\ us \in 0..999999

\* The wall-clock count of seconds of valid calendar fields.
fields2s(f) ==
  (ymd2ord(f.year, f.month, f.day) - EpochOrd) * 86400
    + f.hour * 3600 + f.minute * 60 + f.second

\* A wall-clock instant written as calendar fields.
At(year, month, day, hour, minute, second) ==
  fields2s([year |-> year, month |-> month, day |-> day,
            hour |-> hour, minute |-> minute, second |-> second])

(***************************************************************************)
(* datetime.timedelta: a normalised (seconds, microseconds) pair.          *)
(***************************************************************************)
timedelta(s, us) == [s |-> s + (us \div 1000000), us |-> us % 1000000]

td_neg(d) == timedelta(0 - d.s, 0 - d.us)

td_mul(k, d) == timedelta(k * d.s, k * d.us)

td_positive(d) == d.s > 0 \/ (d.s = 0 /\ d.us > 0)

(***************************************************************************)
(* The zone catalog of the rule provider (pytz).  A rule table gives the   *)
(* standard offset and one daylight-saving period [from, to), in seconds   *)
(* of UTC; "static" and "utc" tables have no such period.                  *)
(***************************************************************************)
RuleNone ==
  [kind |-> "none", std |-> 0, save |-> 0, from |-> 0, to |-> 0, tzname |-> ""]

RuleUTC ==
  [kind |-> "utc", std |-> 0, save |-> 0, from |-> 0, to |-> 0, tzname |-> "UTC"]

\* What build_tzinfo makes of a zone file without transitions at offset 0.
RuleStaticUTC ==
  [kind |-> "static", std |-> 0, save |-> 0, from |-> 0, to |-> 0, tzname |-> "UTC"]

RuleEastern ==
  [kind |-> "dst", std |-> 0 - 18000, save |-> 3600,
   from |-> At(2012, 3, 11, 7, 0, 0), to |-> At(2012, 11, 4, 6, 0, 0),
   tzname |-> "EST"]

RuleLondon ==
  [kind |-> "dst", std |-> 0, save |-> 3600,
   from |-> At(2012, 3, 25, 1, 0, 0), to |-> At(2012, 10, 28, 1, 0, 0),
   tzname |-> "GMT"]

\* A rule table no catalog zone has (what an /etc/localtime may hold).
RuleParis ==
  [kind |-> "dst", std |-> 3600, save |-> 3600,
   from |-> At(2012, 3, 25, 1, 0, 0), to |-> At(2012, 10, 28, 1, 0, 0),
   tzname |-> "CET"]

\* pytz.all_timezones: the names of the catalog, in sorted order.
all_timezones == <<"America/New_York", "Europe/London", "US/Eastern", "UTC">>

all_timezones_set == {all_timezones[i] : i \in 1..Len(all_timezones)}

\* The rule table the provider's resource of a catalog zone holds.
zone_rule(name) ==
  CASE name = "America/New_York" -> RuleEastern
    [] name = "US/Eastern" -> RuleEastern
    [] name = "Europe/London" -> RuleLondon
    [] OTHER -> RuleUTC

None == "None"

NoneTz == [zone |-> None, rule |-> RuleNone, utcoffset |-> 0, dst |-> 0]

\* The tzinfo object of the period of `rule` in effect at the UTC second u
\* (pytz: bisect_right(_utc_transition_times, u) - 1).
period_at(zone, rule, u) ==
  IF rule.kind = "dst" /\ rule.from <= u /\ u < rule.to
    THEN [zone |-> zone, rule |-> rule, utcoffset |-> rule.std + rule.save,
          dst |-> rule.save]
    ELSE [zone |-> zone, rule |-> rule, utcoffset |-> rule.std, dst |-> 0]

\* pytz.tzfile.build_tzinfo(name, f): the zone object of a rule table.
build_tzinfo(zone, rule) ==
  [zone |-> zone, rule |-> rule, utcoffset |-> rule.std, dst |-> 0]

utc == build_tzinfo("UTC", RuleUTC)

(***************************************************************************)
(* Values.  A result is [exc, v]: exc = "" when v was returned.            *)
(***************************************************************************)
Dt(cls, s, us, tzinfo, is_dst) ==
  [cls |-> cls, s |-> s, us |-> us, tzinfo |-> tzinfo, is_dst |-> is_dst]

\* A plain datetime.datetime.
Plain(s, us, tzinfo) == Dt("datetime", s, us, tzinfo, FALSE)

NoVal == Dt("none", 0, 0, NoneTz, FALSE)

Ok(v) == [exc |-> "", v |-> v]

Raise(e) == [exc |-> e, v |-> NoVal]

\* The instant of an aware datetime, in seconds of UTC.
utc_s(dt) == dt.s - dt.tzinfo.utcoffset

\* tz.fromutc: the aware datetime of zone tz at the UTC second u.
fromutc(tz, u, us) ==
  LET p == period_at(tz.zone, tz.rule, u) IN Plain(u + p.utcoffset, us, p)

\* tz.normalize(dt): the same instant with the offset in effect at it.
normalize(tz, dt) == fromutc(tz, utc_s(dt), dt.us)

\* datetime.astimezone(tz) of an aware plain datetime.
dt_astimezone(dt, tz) == fromutc(tz, utc_s(dt), dt.us)

\* pytz localize: the ways the wall clock (s, us) can be read in zone tz.
\* Each of the periods in effect a day before and a day after is tried.
possible_loc_dt(tz, s, us) ==
  LET try(delta) ==
        normalize(tz, Plain(s, us, period_at(tz.zone, tz.rule, s + delta)))
  IN {p \in {try(0 - 86400), try(86400)} : p.s = s}

\* Of the readings in pool, the earliest instant when is_dst is true and
\* the latest when it is false.
pick_reading(pool, is_dst) ==
  CHOOSE p \in pool :
    \A q \in pool : IF is_dst = "True" THEN utc_s(p) <= utc_s(q)
                                       ELSE utc_s(p) >= utc_s(q)

\* The readings that agree with is_dst decide, or all when none agrees.
pick_flagged(poss, filtered, is_dst) ==
  pick_reading(IF filtered = {} THEN poss ELSE filtered, is_dst)

\* localize once the possible readings poss are known: one reading is the
\* answer; none is a spring-forward gap, two are a fall-back overlap.
RECURSIVE localize(_, _, _, _), localize_among(_, _, _, _, _)
localize_among(tz, s, us, is_dst, poss) ==
  CASE Cardinality(poss) = 1 -> Ok(CHOOSE p \in poss : TRUE)
    [] Cardinality(poss) = 0 /\ is_dst = None -> Raise("NonExistentTimeError")
    [] Cardinality(poss) = 0 /\ is_dst = "True" ->
         Ok([localize(tz, s + 21600, us, is_dst).v EXCEPT !.s = @ - 21600])
    [] Cardinality(poss) = 0 /\ is_dst = "False" ->
         Ok([localize(tz, s - 21600, us, is_dst).v EXCEPT !.s = @ + 21600])
    [] Cardinality(poss) > 1 /\ is_dst = None -> Raise("AmbiguousTimeError")
    [] OTHER ->
         Ok(pick_flagged(poss, {p \in poss : (p.tzinfo.dst # 0) = (is_dst = "True")},
                         is_dst))

\* tz.localize(dt, is_dst) of the naive wall clock (s, us).
localize(tz, s, us, is_dst) ==
  IF tz.rule.kind # "dst"
    THEN Ok(Plain(s, us, build_tzinfo(tz.zone, tz.rule)))
    ELSE localize_among(tz, s, us, is_dst, possible_loc_dt(tz, s, us))

(***************************************************************************)
(* Zone arguments.  An argument that may name a zone is a record           *)
(*   [kind, name, tz]: kind "str" (a string, name), "tzinfo" (an object,   *)
(* tz), "None", or "other" (anything else, such as a number).              *)
(***************************************************************************)
ZStr(name) == [kind |-> "str", name |-> name, tz |-> NoneTz]

ZObj(tz) == [kind |-> "tzinfo", name |-> "", tz |-> tz]

ZNone == [kind |-> None, name |-> "", tz |-> NoneTz]

ZOther == [kind |-> "other", name |-> "", tz |-> NoneTz]

TzOk(tz) == [exc |-> "", tz |-> tz]

TzRaise(e) == [exc |-> e, tz |-> NoneTz]

\* pytz.timezone(zone): the cache is looked up first, then the catalog.
pytz_timezone(zone, cache) ==
  CASE zone.kind # "str" -> TzRaise(IF zone.kind = None THEN "UnknownTimeZoneError"
                                                         ELSE "AttributeError")
    [] zone.kind = "str" /\ zone.name = "UTC" -> TzOk(utc)
    [] zone.kind = "str" /\ zone.name # "UTC"
         /\ (\E c \in cache : c.key = zone.name) ->
         TzOk(build_tzinfo(zone.name, (CHOOSE c \in cache : c.key = zone.name).rule))
    [] zone.kind = "str" /\ zone.name # "UTC"
         /\ ~(\E c \in cache : c.key = zone.name)
         /\ zone.name \in all_timezones_set ->
         TzOk(build_tzinfo(zone.name, zone_rule(zone.name)))
    [] OTHER -> TzRaise("UnknownTimeZoneError")

\* _tzinfome, lines 98-102, on what pytz.timezone gave: the zone found
\* must be a catalog zone (the assert); an AttributeError becomes
\* UnknownTimeZoneError.
tzinfome_looked_up(r) ==
  CASE r.exc = "AttributeError" -> TzRaise("UnknownTimeZoneError")
    [] r.exc # "" /\ r.exc # "AttributeError" -> r
    [] r.exc = "" /\ r.tz.zone \notin all_timezones_set -> TzRaise("AssertionError")
    [] OTHER -> r

\* _tzinfome(tzinfo): a tzinfo object is returned as it is.
_tzinfome(tzinfo, cache) ==
  IF tzinfo.kind = "tzinfo"
    THEN TzOk(tzinfo.tz)
    ELSE tzinfome_looked_up(pytz_timezone(tzinfo, cache))

(***************************************************************************)
(* Detection of the local zone.  The machine is the record env:            *)
(*   platform       sys.platform                                           *)
(*   win            what the platform-native query finds (a zone or None)  *)
(*   TZ             os.environ["TZ"], None when unset                      *)
(*   etc_timezone   [state, content] of /etc/timezone                      *)
(*   etc_localtime  [state, rule] of /etc/localtime                        *)
(*   tzdir          [state, files]: the files of TZDIR in walk order, each *)
(*                  [name, rule]                                           *)
(*   php            [tzname, timezone, daylight]: time.tzname[0],          *)
(*                  time.timezone, time.daylight                           *)
(* state is "absent", "ioerror" (the file is there and cannot be read) or  *)
(* "ok".  A strategy returns [exc, tz, warns]; tz = NoneTz stands for None.*)
(***************************************************************************)
Found(tz, warns, cache) == [exc |-> "", tz |-> tz, warns |-> warns, cache |-> cache]

Escapes(e, cache) == [exc |-> e, tz |-> NoneTz, warns |-> <<>>, cache |-> cache]

\* The platform-native query of detect_windows.
_detect_timezone_windows(e, cache) ==
  IF e.win = None
    THEN Found(NoneTz, <<>>, cache)
    ELSE Found(build_tzinfo(e.win, zone_rule(e.win)), <<>>, cache)

\* try: return pytz.timezone(name) / except (IOError, UnknownTimeZoneError):
\* warn; r is what pytz.timezone gave.
zone_or_warn(r, warning, cache) ==
  CASE r.exc = "" -> Found(r.tz, <<>>, cache)
    [] r.exc \in {"IOError", "UnknownTimeZoneError"} -> Found(NoneTz, <<warning>>, cache)
    [] OTHER -> Escapes(r.exc, cache)

_detect_timezone_environ(e, cache) ==
  IF e.TZ # None
    THEN zone_or_warn(pytz_timezone(ZStr(e.TZ), cache), "TZ not understood", cache)
    ELSE Found(NoneTz, <<>>, cache)

_detect_timezone_etc_timezone(e, cache) ==
  CASE e.etc_timezone.state = "absent" -> Found(NoneTz, <<>>, cache)
    [] e.etc_timezone.state = "ioerror" ->
         Found(NoneTz, <<"/etc/timezone not accessible">>, cache)
    [] OTHER ->
         zone_or_warn(pytz_timezone(ZStr(e.etc_timezone.content), cache),
                      "/etc/timezone not valid", cache)

\* _load_local_tzinfo: [exc, files]; a file that cannot be opened raises.
_load_local_tzinfo(e) ==
  IF e.tzdir.state = "ioerror"
    THEN [exc |-> "IOError", files |-> <<>>]
    ELSE [exc |-> "", files |-> e.tzdir.files]

\* The position of a catalog name in the sorted catalog.
zone_index(name) == CHOOSE i \in 1..Len(all_timezones) : all_timezones[i] = name

\* The sorted sequence rest with x inserted.
insert_by_zone(x, rest) ==
  SelectSeq(rest, LAMBDA m : zone_index(m.zone) < zone_index(x.zone))
    \o <<x>>
    \o SelectSeq(rest, LAMBDA m : ~(zone_index(m.zone) < zone_index(x.zone)))

\* matches.sort(key=lambda x: x.zone), by insertion.
RECURSIVE sort_by_zone(_)
sort_by_zone(matches) ==
  IF Len(matches) <= 1
    THEN matches
    ELSE insert_by_zone(Head(matches), sort_by_zone(Tail(matches)))

\* One round of the loop of lines 296-323, for the name tzname whose zone
\* object has the rule table `rule`, before the rounds that gave rest.
match_round(tzname, rule, localtime, cache, rest) ==
  CASE rule # localtime.rule -> rest
    [] rule = localtime.rule /\ tzname \notin all_timezones_set ->
         [matches |-> rest.matches,
          warns |-> <<"skipping, not in pytz">> \o rest.warns]
    [] OTHER ->
         [matches |-> <<_tzinfome(ZStr(tzname), cache).tz>> \o rest.matches,
          warns |-> rest.warns]

\* The loop of lines 296-323 over the files of the local rule database from
\* position i on: [matches, warns].
RECURSIVE matches_local(_, _, _, _)
matches_local(files, localtime, cache, i) ==
  IF i > Len(files)
    THEN [matches |-> <<>>, warns |-> <<>>]
    ELSE match_round(files[i].name, files[i].rule, localtime, cache,
                     matches_local(files, localtime, cache, i + 1))

\* The same loop over pytz.all_timezones, each looked up with _tzinfome.
RECURSIVE matches_pytz(_, _, _)
matches_pytz(localtime, cache, i) ==
  IF i > Len(all_timezones)
    THEN [matches |-> <<>>, warns |-> <<>>]
    ELSE match_round(all_timezones[i],
                     _tzinfome(ZStr(all_timezones[i]), cache).tz.rule,
                     localtime, cache, matches_pytz(localtime, cache, i + 1))

\* Lines 325-339: the sorted matches decide.
localtime_decide(localtime, matches, warns, cache) ==
  CASE Len(matches) = 1 -> Found(matches[1], warns, cache)
    [] Len(matches) > 1 ->
         Found(matches[1], warns \o <<"multiple matches for /etc/localtime">>, cache)
    [] OTHER ->
         Found(localtime, warns \o <<"no matches for /etc/localtime">>,
               {c \in cache : c.key # "/etc/localtime"}
                 \cup {[key |-> "/etc/localtime", rule |-> localtime.rule]})

localtime_found(localtime, found, cache) ==
  localtime_decide(localtime, sort_by_zone(found.matches), found.warns, cache)

\* Lines 287-339, with the parsed /etc/localtime and the local database.
localtime_search(localtime, tzdatabase, cache) ==
  CASE tzdatabase.exc # "" -> Escapes(tzdatabase.exc, cache)
    [] tzdatabase.exc = "" /\ Len(tzdatabase.files) > 0 ->
         localtime_found(localtime,
                         matches_local(tzdatabase.files, localtime, cache, 1), cache)
    [] OTHER ->
         localtime_found(localtime, matches_pytz(localtime, cache, 1), cache)

_detect_timezone_etc_localtime(e, cache) ==
  CASE e.etc_localtime.state = "absent" -> Found(NoneTz, <<>>, cache)
    [] e.etc_localtime.state = "ioerror" -> Escapes("IOError", cache)
    [] OTHER ->
         localtime_search(build_tzinfo("/etc/localtime", e.etc_localtime.rule),
                          _load_local_tzinfo(e), cache)

\* Line 356: does the zone object tz give the machine's triple at `local_now`?
php_match(e, tz, local_now) ==
  /\ e.php.tzname = tz.rule.tzname
  /\ e.php.timezone = 0 - (tz.utcoffset % 86400)
  /\ e.php.daylight = (IF localize(tz, local_now, 0, "False").v.tzinfo.dst # 0 THEN 1 ELSE 0)

\* The names the 'PHP' method matches, in catalog order.
php_matches(e, cache, local_now) ==
  SelectSeq(all_timezones,
            LAMBDA tzname : php_match(e, pytz_timezone(ZStr(tzname), cache).tz, local_now))

\* Lines 363-367.
php_decide(matches, cache) ==
  IF Len(matches) > 0
    THEN Found(pytz_timezone(ZStr(matches[1]), cache).tz,
               IF Len(matches) > 1 THEN <<"multiple matches for the timezone">>
                                   ELSE <<>>,
               cache)
    ELSE Found(NoneTz, <<>>, cache)

\* _detect_timezone_php; local_now is datetime.datetime.local_now(), the local wall clock.
_detect_timezone_php(e, cache, local_now) == php_decide(php_matches(e, cache, local_now), cache)

\* What a run of detect_timezone leaves: the exception or the zone, the
\* warnings, the strategies attempted (in order) and the provider's cache.
Detected(exc, tz, warns, tried, cache) ==
  [exc |-> exc, tz |-> tz, warns |-> warns, tried |-> tried, cache |-> cache]

\* A strategy ends the cascade when it yields a zone (or raises).
ends_cascade(r) == r.exc # "" \/ r.tz # NoneTz

\* "tz = strategy(); if tz is not None: return tz", and then the rest of
\* the cascade: r is what the strategy `name` gave.
cascade(name, r, rest) ==
  IF ends_cascade(r)
    THEN Detected(r.exc, r.tz, r.warns, <<name>>, r.cache)
    ELSE [rest EXCEPT !.tried = <<name>> \o @, !.warns = r.warns \o @]

\* Lines 223-230: the warning, the 'PHP' method, and the error when it too
\* yields nothing.
cascade_last(r) ==
  IF ends_cascade(r)
    THEN Detected(r.exc, r.tz, <<"worst detection method">> \o r.warns, <<"php">>,
                  r.cache)
    ELSE Detected("UnknownTimeZoneError", NoneTz,
                  <<"worst detection method">> \o r.warns, <<"php">>, r.cache)

\* Lines 200-203: the platform-native query is made on win32 only.
cascade_win32(win32, r, rest) ==
  IF win32 THEN cascade("windows", r, rest) ELSE rest

\* A cascade that reads /etc/timezone before the TZ variable.
detect_timezone_etc_first(e, cache, local_now) ==
  cascade_win32(e.platform = "win32", _detect_timezone_windows(e, cache),
    cascade("etc_timezone", _detect_timezone_etc_timezone(e, cache),
      cascade("environ", _detect_timezone_environ(e, cache),
        cascade("etc_localtime", _detect_timezone_etc_localtime(e, cache),
          cascade_last(_detect_timezone_php(e, cache, local_now))))))

detect_timezone(e, cache, local_now) ==
  cascade_win32(e.platform = "win32", _detect_timezone_windows(e, cache),
    cascade("environ", _detect_timezone_environ(e, cache),
      cascade("etc_timezone", _detect_timezone_etc_timezone(e, cache),
        cascade("etc_localtime", _detect_timezone_etc_localtime(e, cache),
          cascade_last(_detect_timezone_php(e, cache, local_now))))))

\* datetime.datetime.now(): the wall clock of the machine's own zone.
os_now(e, now_utc) == now_utc - e.php.timezone

\* localtz() when detection ran and gave d.
localtz_detected(lt, d) ==
  [exc |-> d.exc, tz |-> d.tz, lt |-> IF d.exc = "" THEN d.tz ELSE lt,
   cache |-> d.cache, ran |-> TRUE, warns |-> d.warns, tried |-> d.tried]

\* A localtz() that detects on every call, whatever the module global holds.
localtz_uncached(lt, e, cache, now_utc) ==
  localtz_detected(lt, detect_timezone(e, cache, os_now(e, now_utc)))

\* localtz(): [exc, tz] as returned or raised, the module global and the
\* provider's cache as they are left, and whether (and how) detection ran.
localtz(lt, e, cache, now_utc) ==
  IF lt = NoneTz
    THEN localtz_detected(lt, detect_timezone(e, cache, os_now(e, now_utc)))
    ELSE [exc |-> "", tz |-> lt, lt |-> lt, cache |-> cache, ran |-> FALSE,
          warns |-> <<>>, tried |-> <<>>]

\* "_localtz = _tzinfome(timezone)": nothing is assigned when r raised.
localtz_assign(lt, r) == [exc |-> r.exc, lt |-> IF r.exc = "" THEN r.tz ELSE lt]

\* localtz_set(timezone): [exc, lt].
localtz_set(lt, timezone, cache) == localtz_assign(lt, _tzinfome(timezone, cache))

(***************************************************************************)
(* datetime_tz.__new__.  The call's arguments are the record               *)
(*   form     "empty", "fields" (raw calendar fields) or "datetime" (the   *)
(*            leading argument is a datetime value)                        *)
(*   f, us    the calendar fields and the microsecond ("fields")           *)
(*   src      the leading datetime value ("datetime")                      *)
(*   pos      the trailing positional argument when it is a zone           *)
(*   kwtz     the tzinfo= option                                           *)
(*   is_dst   the is_dst= option: "absent", None, "True" or "False"        *)
(* The outcome is [exc, v, lt, cache]: the module global and the           *)
(* provider's cache are given as the call leaves them.                     *)
(***************************************************************************)
ZAbsent == [kind |-> "absent", name |-> "", tz |-> NoneTz]

Out(r, lt, cache) == [exc |-> r.exc, v |-> r.v, lt |-> lt, cache |-> cache]

\* Line 422: the last positional argument is a tzinfo or a string.
pos_is_zone(a) == a.pos.kind \in {"str", "tzinfo"}

\* Lines 421-425: the zone the arguments name, NoneTz when they name none.
zone_argument(a, cache) ==
  CASE pos_is_zone(a) -> _tzinfome(a.pos, cache)
    [] ~pos_is_zone(a) /\ a.kwtz.kind \notin {"absent", None} -> _tzinfome(a.kwtz, cache)
    [] OTHER -> TzOk(NoneTz)

\* Lines 430-432: the source's fields and tzinfo as a plain datetime.
plain_from_source(src) == Plain(fields2s(timetuple(src.s)), src.us, src.tzinfo)

\* Lines 428-439: a datetime as leading argument.
source_dt(a, tzinfo) ==
  CASE tzinfo = NoneTz /\ a.src.tzinfo = NoneTz -> Raise("TypeError")
    [] tzinfo # NoneTz /\ a.src.tzinfo # NoneTz -> Raise("TypeError")
    [] OTHER -> Ok(plain_from_source(a.src))

\* Line 441: datetime.datetime(*args, **kw).  kw still holds is_dst, and
\* holds tzinfo when the zone came from the positional argument.
fields_dt(a) ==
  CASE a.is_dst # "absent" -> Raise("TypeError")
    [] a.is_dst = "absent" /\ pos_is_zone(a) /\ a.kwtz.kind \in {"str", "other"} ->
         Raise("TypeError")
    [] a.is_dst = "absent" /\ ~(pos_is_zone(a) /\ a.kwtz.kind \in {"str", "other"})
         /\ ~fields_valid(a.f, a.us) -> Raise("ValueError")
    [] OTHER ->
         Ok(Plain(fields2s(a.f), a.us,
                  IF pos_is_zone(a) /\ a.kwtz.kind = "tzinfo" THEN a.kwtz.tz ELSE NoneTz))

\* Lines 463-466: the object made of dt's fields and tzinfo.
new_obj(dt) ==
  Ok(Dt("datetime_tz", fields2s(timetuple(dt.s)), dt.us, dt.tzinfo, dt.tzinfo.dst # 0))

\* Lines 458-461: the second localize, with the flag.
new_second(r2) == IF r2.exc = "" THEN new_obj(r2.v) ELSE Raise(r2.exc)

\* Lines 451-461: r1 is what localize(dt, is_dst=None) gave.
new_localized(a, r1, dt, tzinfo) ==
  CASE r1.exc = "" -> new_obj(r1.v)
    [] r1.exc = "AmbiguousTimeError" ->
         new_second(localize(tzinfo, dt.s, dt.us,
                             IF a.is_dst = "absent" THEN None ELSE a.is_dst))
    [] OTHER -> Raise(r1.exc)

new_in_zone(a, dt, tzinfo) ==
  new_localized(a, localize(tzinfo, dt.s, dt.us, None), dt, tzinfo)

\* Lines 448-449: no zone was given, l is what localtz() gave.
new_local(a, dt, l) ==
  IF l.exc # ""
    THEN Out(Raise(l.exc), l.lt, l.cache)
    ELSE Out(new_in_zone(a, dt, l.tz), l.lt, l.cache)

\* Lines 443-466: d is the plain datetime (or the exception) of lines 428-441.
new_dt(a, d, tzinfo, lt, e, cache, now_utc) ==
  CASE d.exc # "" -> Out(d, lt, cache)
    [] d.exc = "" /\ d.v.tzinfo # NoneTz ->
         Out(new_obj(normalize(d.v.tzinfo, d.v)), lt, cache)
    [] d.exc = "" /\ d.v.tzinfo = NoneTz /\ tzinfo # NoneTz ->
         Out(new_in_zone(a, d.v, tzinfo), lt, cache)
    [] OTHER -> new_local(a, d.v, localtz(lt, e, cache, now_utc))

\* Lines 427-466: z is what lines 421-425 gave.
new_resolved(a, z, lt, e, cache, now_utc) ==
  IF z.exc # ""
    THEN Out(Raise(z.exc), lt, cache)
    ELSE new_dt(a, IF a.form = "datetime" THEN source_dt(a, z.tz) ELSE fields_dt(a),
                z.tz, lt, e, cache, now_utc)

\* datetime_tz(*args, **kw).
datetime_tz(a, lt, e, cache, now_utc) ==
  IF a.form = "empty"
    THEN Out(Raise("TypeError"), lt, cache)
    ELSE new_resolved(a, zone_argument(a, cache), lt, e, cache, now_utc)

NoFields == [year |-> 1, month |-> 1, day |-> 1, hour |-> 0, minute |-> 0, second |-> 0]

\* The arguments (src, tzinfo=kwtz, is_dst=is_dst) and (src, pos).
FromDatetime(src, pos, kwtz, is_dst) ==
  [form |-> "datetime", f |-> NoFields, us |-> 0, src |-> src, pos |-> pos,
   kwtz |-> kwtz, is_dst |-> is_dst]

\* The arguments (year, month, day, hour, minute, second, microsecond, ...).
FromFields(f, us, pos, kwtz, is_dst) ==
  [form |-> "fields", f |-> f, us |-> us, src |-> NoVal, pos |-> pos,
   kwtz |-> kwtz, is_dst |-> is_dst]

\* type(self)(d): the one-argument call the methods end with.
rewrap(d, lt, e, cache, now_utc) ==
  datetime_tz(FromDatetime(d, ZAbsent, ZAbsent, "absent"), lt, e, cache, now_utc)

(***************************************************************************)
(* The methods of datetime_tz.                                             *)
(***************************************************************************)
\* asdatetime(naive): the fields, with or without the tzinfo.
asdatetime(self, naive) ==
  Plain(fields2s(timetuple(self.s)), self.us, IF naive THEN NoneTz ELSE self.tzinfo)

\* astimezone, lines 521-524, with the zone _tzinfome gave.
astimezone_to(self, z, lt, e, cache, now_utc) ==
  IF z.exc # ""
    THEN Out(Raise(z.exc), lt, cache)
    ELSE rewrap(dt_astimezone(asdatetime(self, FALSE), z.tz), lt, e, cache, now_utc)

astimezone(self, tzinfo, lt, e, cache, now_utc) ==
  astimezone_to(self, _tzinfome(tzinfo, cache), lt, e, cache, now_utc)

\* An __add__ that hands back what datetime.__add__ gave, a plain datetime.
add_unwrapped(self, delta, lt, e, cache, now_utc) ==
  Out(Ok(Plain(self.s + timedelta(delta.s, self.us + delta.us).s,
               timedelta(delta.s, self.us + delta.us).us, self.tzinfo)),
      lt, cache)

\* The wrapped __add__ and __radd__ (lines 868-873) with a timedelta.
__add__(self, delta, lt, e, cache, now_utc) ==
  rewrap(Plain(self.s + timedelta(delta.s, self.us + delta.us).s,
               timedelta(delta.s, self.us + delta.us).us, self.tzinfo),
         lt, e, cache, now_utc)

\* The wrapped __sub__ with a timedelta.
__sub__(self, delta, lt, e, cache, now_utc) == __add__(self, td_neg(delta), lt, e, cache, now_utc)

\* The wrapped __radd__ with a timedelta: timedelta + self.
__radd__(self, delta, lt, e, cache, now_utc) == __add__(self, delta, lt, e, cache, now_utc)

\* The wrapped __rsub__ with a timedelta: datetime.__rsub__ gives
\* NotImplemented, the wrapper returns it, and timedelta - self is a
\* TypeError.
__rsub__(self, delta, lt, e, cache, now_utc) == Out(Raise("TypeError"), lt, cache)

\* replace(**kw).  kw is [names, f, us, tzinfo, is_dst]: the names of the
\* calendar fields given, their values, and the two options.
FieldNames == {"year", "month", "day", "hour", "minute", "second", "microsecond"}

\* datetime.replace(**kw) on the fields t: the fields after the replacement.
replaced_fields(t, kw) ==
  [year   |-> IF "year" \in kw.names THEN kw.f.year ELSE t.year,
   month  |-> IF "month" \in kw.names THEN kw.f.month ELSE t.month,
   day    |-> IF "day" \in kw.names THEN kw.f.day ELSE t.day,
   hour   |-> IF "hour" \in kw.names THEN kw.f.hour ELSE t.hour,
   minute |-> IF "minute" \in kw.names THEN kw.f.minute ELSE t.minute,
   second |-> IF "second" \in kw.names THEN kw.f.second ELSE t.second]

replaced_us(self, kw) == IF "microsecond" \in kw.names THEN kw.us ELSE self.us

\* "tzinfo or self.tzinfo.zone" of line 564.
replace_tzinfo(self, kw) ==
  IF kw.tzinfo.kind = "absent" \/ (kw.tzinfo.kind = "str" /\ kw.tzinfo.name = "")
    THEN ZStr(self.tzinfo.zone)
    ELSE kw.tzinfo

\* Lines 555-559: the flag given or else the value's own.
replace_is_dst(self, kw) ==
  IF kw.is_dst = "absent" THEN (IF self.is_dst THEN "True" ELSE "False") ELSE kw.is_dst

\* Lines 561-564: f and us are the fields after the replacement.
replace_to(self, kw, f, us, lt, e, cache, now_utc) ==
  CASE kw.names \ FieldNames # {} -> Out(Raise("TypeError"), lt, cache)
    [] kw.names \ FieldNames = {} /\ ~fields_valid(f, us) ->
         Out(Raise("ValueError"), lt, cache)
    [] OTHER ->
         datetime_tz(FromDatetime(Plain(fields2s(f), us, NoneTz), ZAbsent,
                                  replace_tzinfo(self, kw), replace_is_dst(self, kw)),
                     lt, e, cache, now_utc)

replace(self, kw, lt, e, cache, now_utc) ==
  IF kw.tzinfo.kind = None
    THEN Out(Raise("TypeError"), lt, cache)
    ELSE replace_to(self, kw, replaced_fields(timetuple(self.s), kw),
                    replaced_us(self, kw), lt, e, cache, now_utc)

\* replace(hour=0, minute=0, second=0, microsecond=0).
AtMidnight ==
  [names |-> {"hour", "minute", "second", "microsecond"},
   f |-> [NoFields EXCEPT !.hour = 0], us |-> 0, tzinfo |-> ZAbsent, is_dst |-> "absent"]

\* The seconds between 1970-01-01 and the day instants are counted from.
EpochTimestamp == (EpochOrd - ymd2ord(1970, 1, 1)) * 86400

\* utcfromtimestamp(timestamp), lines 703-705.
utcfromtimestamp(timestamp, lt, e, cache, now_utc) ==
  rewrap(Plain(timestamp - EpochTimestamp, 0, utc), lt, e, cache, now_utc)

\* obj.astimezone(localtz()) where l is what localtz() gave.
astimezone_local(obj, l, e, now_utc) ==
  CASE obj.exc # "" -> obj
    [] obj.exc = "" /\ l.exc # "" -> Out(Raise(l.exc), l.lt, l.cache)
    [] OTHER -> astimezone(obj.v, ZObj(l.tz), l.lt, e, l.cache, now_utc)

\* fromtimestamp(timestamp), lines 710-711.
fromtimestamp(timestamp, lt, e, cache, now_utc) ==
  astimezone_local(utcfromtimestamp(timestamp, lt, e, cache, now_utc),
                   localtz(lt, e, cache, now_utc), e, now_utc)

\* utcnow(), lines 716-718.
utcnow(lt, e, cache, now_utc) ==
  datetime_tz(FromDatetime(Plain(now_utc, 0, NoneTz), ZAbsent, ZObj(utc), "absent"),
              lt, e, cache, now_utc)

\* obj.astimezone(tzinfo) of line 726, for a tzinfo that was given.
astimezone_given(obj, tzinfo, e, now_utc) ==
  IF obj.exc # ""
    THEN obj
    ELSE astimezone(obj.v, tzinfo, obj.lt, e, obj.cache, now_utc)

\* now(tzinfo), lines 723-726.
now(tzinfo, lt, e, cache, now_utc) ==
  IF tzinfo.kind \in {"absent", None}
    THEN astimezone_local(utcnow(lt, e, cache, now_utc),
                          localtz(lt, e, cache, now_utc), e, now_utc)
    ELSE astimezone_given(utcnow(lt, e, cache, now_utc), tzinfo, e, now_utc)

\* cls(datetime.datetime.combine(date, time), tzinfo) with the zone l.
combine_in(d, l, e, now_utc) ==
  IF l.exc # ""
    THEN Out(Raise(l.exc), l.lt, l.cache)
    ELSE datetime_tz(FromDatetime(d, ZObj(l.tz), ZAbsent, "absent"),
                     l.lt, e, l.cache, now_utc)

\* combine(date, time, tzinfo), lines 732-734; d is the date and the time
\* (with the time's tzinfo) as one plain datetime.
combine(d, tzinfo, lt, e, cache, now_utc) ==
  IF tzinfo.kind \in {"absent", None}
    THEN combine_in(d, localtz(lt, e, cache, now_utc), e, now_utc)
    ELSE datetime_tz(FromDatetime(d, tzinfo, ZAbsent, "absent"), lt, e, cache, now_utc)

\* The rich comparisons datetime_tz inherits from datetime.datetime, which
\* it does not override.  Two naive values are ordered by their fields, two
\* aware ones by their instants (by their fields when they share the
\* tzinfo object).
cmp_key(x, y) ==
  IF x.tzinfo = NoneTz \/ x.tzinfo = y.tzinfo
    THEN <<x.s, x.us>>
    ELSE <<utc_s(x), x.us>>

\* cmp is "==", "!=", "<", "<=", ">" or ">=" on the keys k and l.
cmp_keys(k, l, cmp) ==
  CASE cmp = "==" -> k = l
    [] cmp = "!=" -> k # l
    [] cmp = "<"  -> k[1] < l[1] \/ (k[1] = l[1] /\ k[2] < l[2])
    [] cmp = "<=" -> k[1] < l[1] \/ (k[1] = l[1] /\ k[2] <= l[2])
    [] cmp = ">"  -> k[1] > l[1] \/ (k[1] = l[1] /\ k[2] > l[2])
    [] OTHER      -> k[1] > l[1] \/ (k[1] = l[1] /\ k[2] >= l[2])

Truth(exc, truth) == [exc |-> exc, v |-> NoVal, truth |-> truth]

\* x cmp y.  A naive and an aware value are unequal under Python 3 and do
\* not compare under Python 2; they are never ordered.
compare(x, y, cmp, python) ==
  CASE (x.tzinfo = NoneTz) = (y.tzinfo = NoneTz) ->
         Truth("", cmp_keys(cmp_key(x, y), cmp_key(y, x), cmp))
    [] (x.tzinfo = NoneTz) # (y.tzinfo = NoneTz) /\ python = 3 /\ cmp \in {"==", "!="} ->
         Truth("", cmp = "!=")
    [] OTHER -> Truth("TypeError", FALSE)

(***************************************************************************)
(* Text.  A str is the sequence of its characters, and the str methods     *)
(* and regular expressions smartparse uses work on the characters.         *)
(***************************************************************************)
UPPERCASE == <<"A", "B", "C", "D", "E", "F", "G", "H", "I", "J", "K", "L", "M", "N", "O", "P", "Q", "R", "S", "T", "U", "V", "W", "X", "Y", "Z">>

LOWERCASE == <<"a", "b", "c", "d", "e", "f", "g", "h", "i", "j", "k", "l", "m", "n", "o", "p", "q", "r", "s", "t", "u", "v", "w", "x", "y", "z">>

DIGITS == <<"0", "1", "2", "3", "4", "5", "6", "7", "8", "9">>

lower_char(c) ==
  IF \E i \in 1..Len(UPPERCASE) : UPPERCASE[i] = c
    THEN LOWERCASE[CHOOSE i \in 1..Len(UPPERCASE) : UPPERCASE[i] = c]
    ELSE c

\* s.lower()
lower(s) == [i \in 1..Len(s) |-> lower_char(s[i])]

\* s[n:]
from_index(s, n) == SubSeq(s, n + 1, Len(s))

\* The number of leading characters of s that are (is = TRUE) or are not
\* (is = FALSE) in the set chars.
span(s, chars, is) ==
  IF \E i \in 1..Len(s) : (s[i] \in chars) # is
    THEN (CHOOSE i \in 1..Len(s) :
            /\ (s[i] \in chars) # is
            /\ \A j \in 1..(i - 1) : (s[j] \in chars) = is) - 1
    ELSE Len(s)

reversed(s) == [i \in 1..Len(s) |-> s[Len(s) + 1 - i]]

lstrip(s) == from_index(s, span(s, {" "}, TRUE))

\* s.strip()
strip(s) == reversed(lstrip(reversed(lstrip(s))))

\* s.startswith(prefix)
startswith(s, prefix) ==
  Len(s) >= Len(prefix) /\ SubSeq(s, 1, Len(prefix)) = prefix

\* part in s
contains(s, part) ==
  \E i \in 1..(Len(s) - Len(part) + 1) : SubSeq(s, i, i + Len(part) - 1) = part

RECURSIVE str_replace(_, _, _)
\* s.replace(old, new), for a non-empty old
str_replace(s, old, new) ==
  CASE s = <<>> -> <<>>
    [] s # <<>> /\ startswith(s, old) ->
         new \o str_replace(from_index(s, Len(old)), old, new)
    [] OTHER -> <<Head(s)>> \o str_replace(Tail(s), old, new)

RECURSIVE int(_)
\* int(s) of a string of digits
int(s) ==
  IF s = <<>>
    THEN 0
    ELSE int(SubSeq(s, 1, Len(s) - 1)) * 10
           + (CHOOSE k \in 0..9 : DIGITS[k + 1] = s[Len(s)])

DigitSet == {DIGITS[i] : i \in 1..Len(DIGITS)}

\* One match of "([0-9]+)([^0-9]*)" at the head of s, which starts with a
\* digit: nd digits, then the characters up to the next digit.
match_at(s, nd) ==
  [amount |-> SubSeq(s, 1, nd),
   unit   |-> SubSeq(s, nd + 1, nd + span(from_index(s, nd), DigitSet, FALSE)),
   rest   |-> from_index(s, nd + span(from_index(s, nd), DigitSet, FALSE))]

RECURSIVE finditer(_)
RECURSIVE finditer_from(_)
finditer_from(m) == <<[amount |-> m.amount, unit |-> m.unit]>> \o finditer(m.rest)

\* re.finditer("([0-9]+)([^0-9]*)", s): the matches, left to right.
finditer(s) ==
  CASE s = <<>> -> <<>>
    [] s # <<>> /\ Head(s) \notin DigitSet -> finditer(Tail(s))
    [] OTHER -> finditer_from(match_at(s, span(s, DigitSet, TRUE)))

(***************************************************************************)
(* smartparse.                                                             *)
(***************************************************************************)
\* Line 654: the units, in the order they are tried.
tocheck ==
  <<<<"s", "e", "c", "o", "n", "d", "s">>,
    <<"m", "i", "n", "u", "t", "e", "s">>,
    <<"h", "o", "u", "r", "s">>,
    <<"d", "a", "y", "s">>,
    <<"w", "e", "e", "k", "s">>,
    <<"m", "o", "n", "t", "h", "s">>,
    <<"y", "e", "a", "r", "s">>>>

\* Lines 662-665: "^([%s]|((%s)s?))$" % (bit[0], bit[:-1]) matches unit.
bitmatch(bit, unit) ==
  \/ unit = <<bit[1]>>
  \/ unit = SubSeq(bit, 1, Len(bit) - 1)
  \/ unit = bit

\* Lines 661-670: the index in tocheck of the first unit that matches, 0
\* when the loop ends without a match.
unit_bit(unit) ==
  IF \E i \in 1..Len(tocheck) : bitmatch(tocheck[i], unit)
    THEN CHOOSE i \in 1..Len(tocheck) :
           /\ bitmatch(tocheck[i], unit)
           /\ \A j \in 1..(i - 1) : ~bitmatch(tocheck[j], unit)
    ELSE 0

NoResult == [i \in 1..Len(tocheck) |-> 0]

\* Line 667, result[bit] = amount: the key's entry is assigned.
result_set(result, bit, amount) == [result EXCEPT ![bit] = amount]

RECURSIVE ago_result(_, _)
ago_matched(matches, result, bit) ==
  IF bit = 0
    THEN [exc |-> "ValueError", result |-> result]
    ELSE ago_result(Tail(matches), result_set(result, bit, int(Head(matches).amount)))

\* Lines 657-670: the loop over the matches; the keys absent from the
\* dictionary are the zeros relativedelta defaults to.
ago_result(matches, result) ==
  IF matches = <<>>
    THEN [exc |-> "", result |-> result]
    ELSE ago_matched(matches, result, unit_bit(strip(Head(matches).unit)))

\* Lines 641-645: the text that is searched for amounts and units.
ago_text(toparselower) ==
  str_replace(
    str_replace(
      str_replace(SubSeq(toparselower, 1, Len(toparselower) - 3),
                  <<"a", " ">>, <<"1", " ">>),
      <<"a", "n", " ">>, <<"1", " ">>),
    <<" ", "a", "n", "d", " ">>, <<" ">>)

\* dateutil's relativedelta(**result): weeks are days, and twelve months
\* carry into a year.
relativedelta(result) ==
  [years   |-> result[7] + (result[6] \div 12),
   months  |-> result[6] % 12,
   days    |-> result[4] + 7 * result[5],
   hours   |-> result[3],
   minutes |-> result[2],
   seconds |-> result[1]]

\* The year and month relativedelta.__radd__ computes for dt - delta.
rd_year(t, delta) ==
  t.year - delta.years - (IF delta.months # 0 /\ t.month - delta.months < 1 THEN 1 ELSE 0)

rd_month(t, delta) ==
  IF t.month - delta.months < 1 THEN t.month - delta.months + 12
                                ELSE t.month - delta.months

\* The replace(year=, month=, day=) of relativedelta.__radd__.
rd_replace(t, year, month) ==
  [names |-> {"year", "month", "day"},
   f |-> [NoFields EXCEPT !.year = year, !.month = month,
            !.day = IF year >= 1 /\ days_in_month(year, month) < t.day
                      THEN days_in_month(year, month) ELSE t.day],
   us |-> 0, tzinfo |-> ZAbsent, is_dst |-> "absent"]

\* The timedelta relativedelta.__radd__ adds for dt - delta.
rd_timedelta(delta) ==
  timedelta(0 - (delta.days * 86400 + delta.hours * 3600
                   + delta.minutes * 60 + delta.seconds), 0)

then_replace(r, kw, e, now_utc) ==
  IF r.exc # "" THEN r ELSE replace(r.v, kw, r.lt, e, r.cache, now_utc)

then_add(r, delta, e, now_utc) ==
  IF r.exc # "" THEN r ELSE __add__(r.v, delta, r.lt, e, r.cache, now_utc)

\* Line 674, dt -= delta: dt.replace(...) + timedelta(...).
sub_relativedelta(dt, t, delta, e, now_utc) ==
  then_add(then_replace(dt, rd_replace(t, rd_year(t, delta), rd_month(t, delta)),
                        e, now_utc),
           rd_timedelta(delta), e, now_utc)

\* Lines 657-674, with what the loop gave.
ago_subtract(dt, parsed, e, now_utc) ==
  IF parsed.exc # ""
    THEN Out(Raise(parsed.exc), dt.lt, dt.cache)
    ELSE sub_relativedelta(dt, timetuple(dt.v.s), relativedelta(parsed.result),
                           e, now_utc)

\* The abbreviations the table of known abbreviations resolves, with the
\* zone and the is_dst flag each stands for.
tzinfos ==
  {[abbr |-> <<"E", "S", "T">>, zone |-> "US/Eastern", is_dst |-> "False"],
   [abbr |-> <<"E", "D", "T">>, zone |-> "US/Eastern", is_dst |-> "True"]}

Parsed(exc, v, tz, zone, is_dst) ==
  [exc |-> exc, v |-> v, tz |-> tz, zone |-> zone, is_dst |-> is_dst]

\* The time "HH:MM" read into the default's fields.
parse_time(t, hour, minute) == [t EXCEPT !.hour = hour, !.minute = minute]

\* The zone part of a parsed text: none, a known abbreviation, or the
\* marker for an unknown one.
parse_zone(v, abbr) ==
  CASE abbr = <<>> -> Parsed("", v, "none", "", "absent")
    [] abbr # <<>> /\ (\E z \in tzinfos : z.abbr = abbr) ->
         Parsed("", v, "abbr", (CHOOSE z \in tzinfos : z.abbr = abbr).zone,
                (CHOOSE z \in tzinfos : z.abbr = abbr).is_dst)
    [] OTHER -> Parsed("", v, "unknown", "", "absent")

\* dateutil.parser.parse(toparse, default=..., tzinfos=...) on the texts
\* "HH:MM" and "HH:MM ABBR"; any other text is not a date.
dateutil_parse(toparse, default) ==
  IF /\ Len(toparse) >= 5
     /\ \A i \in {1, 2, 4, 5} : toparse[i] \in DigitSet
     /\ toparse[3] = ":"
     /\ int(SubSeq(toparse, 1, 2)) <= 23
     /\ int(SubSeq(toparse, 4, 5)) <= 59
     /\ (Len(toparse) > 5 => toparse[6] = " ")
    THEN parse_zone(Plain(fields2s(parse_time(timetuple(default.s),
                                              int(SubSeq(toparse, 1, 2)),
                                              int(SubSeq(toparse, 4, 5)))),
                          default.us, NoneTz),
                    strip(from_index(toparse, 5)))
    ELSE Parsed("ValueError", NoVal, "none", "", "absent")

\* Line 695, dt = cls(dt).
then_rewrap(r, e, now_utc) ==
  IF r.exc # "" THEN r ELSE rewrap(r.v, r.lt, e, r.cache, now_utc)

\* Lines 677-696: what is done with what the parser gave.
parsed_value(p, tzinfo, dt, e, now_utc) ==
  CASE p.exc # "" -> Out(Raise(p.exc), dt.lt, dt.cache)
    [] p.exc = "" /\ p.tz \in {"none", "unknown"} ->
         combine(p.v, tzinfo, dt.lt, e, dt.cache, now_utc)
    [] OTHER ->
         then_rewrap(datetime_tz(FromDatetime(p.v, ZStr(p.zone), ZAbsent, p.is_dst),
                                 dt.lt, e, dt.cache, now_utc),
                     e, now_utc)

OneDay == timedelta(86400, 0)

\* Lines 625-696: the text after the prefix was removed, in its own case
\* and in lowercase.
smartparse_words(toparse, toparselower, tzinfo, dt, default, e, now_utc) ==
  IF dt.exc # "" THEN dt
  ELSE IF default.exc # "" THEN default
  ELSE IF toparselower \in {<<"n", "o", "w">>, <<"t", "o", "d", "a", "y">>} THEN dt
  ELSE IF toparselower = <<"y", "e", "s", "t", "e", "r", "d", "a", "y">> THEN then_add(dt, td_neg(OneDay), e, now_utc)
  ELSE IF toparselower \in {<<"t", "o", "m", "o", "r", "r", "o", "w">>,
                            <<"t", "o", "m", "m", "o", "r", "r", "o", "w">>}
    THEN then_add(dt, OneDay, e, now_utc)
  ELSE IF contains(toparselower, <<"a", "g", "o">>)
    THEN ago_subtract(dt, ago_result(finditer(ago_text(toparselower)), NoResult),
                      e, now_utc)
  ELSE parsed_value(dateutil_parse(toparse, asdatetime(default.v, TRUE)),
                    tzinfo, dt, e, now_utc)

\* After "end of " or "start of ": dt is also the default.
smartparse_at(toparse, tzinfo, dt, e, now_utc) ==
  smartparse_words(toparse, lower(toparse), tzinfo, dt, dt, e, now_utc)

\* Lines 610-612: the last microsecond of dt's day.
end_of_day(dt, e, now_utc) ==
  then_add(then_replace(then_add(dt, OneDay, e, now_utc), AtMidnight, e, now_utc),
           td_neg(timedelta(0, 1)), e, now_utc)

\* Lines 603-622: default is dt.replace(hour=0, ...), or its exception.
smartparse_prefix(toparse, tzinfo, dt, default, e, now_utc) ==
  IF default.exc # "" THEN default
  ELSE IF startswith(lower(toparse), <<"e", "n", "d", " ", "o", "f", " ">>)
    THEN smartparse_at(strip(from_index(toparse, 7)), tzinfo,
                       end_of_day(dt, e, now_utc), e, now_utc)
  ELSE IF startswith(lower(toparse), <<"s", "t", "a", "r", "t", " ", "o", "f", " ">>)
    THEN smartparse_at(strip(from_index(toparse, 9)), tzinfo, default, e, now_utc)
  ELSE smartparse_words(toparse, lower(toparse), tzinfo, dt, default, e, now_utc)

\* Lines 598-603: dt is what now() gave.
smartparse_now(toparse, tzinfo, dt, e, now_utc) ==
  IF dt.exc # ""
    THEN dt
    ELSE smartparse_prefix(toparse, tzinfo, dt, then_replace(dt, AtMidnight, e, now_utc),
                           e, now_utc)

\* smartparse(toparse, tzinfo).
smartparse(toparse, tzinfo, lt, e, cache, now_utc) ==
  smartparse_now(strip(toparse), tzinfo, now(tzinfo, lt, e, cache, now_utc), e, now_utc)

(***************************************************************************)
(* The machines the model is run on.                                       *)
(***************************************************************************)
File(state, content, rule) == [state |-> state, content |-> content, rule |-> rule]

\* A copy of the rule database as os.walk lists it, with a file the catalog
\* does not know.
LocalFiles ==
  <<[name |-> "US/Eastern", rule |-> RuleEastern],
    [name |-> "posixrules", rule |-> RuleEastern],
    [name |-> "UTC", rule |-> RuleStaticUTC],
    [name |-> "Europe/London", rule |-> RuleLondon],
    [name |-> "America/New_York", rule |-> RuleEastern]>>

Platforms ==
  {[platform |-> "linux", win |-> None],
   [platform |-> "win32", win |-> None],
   [platform |-> "win32", win |-> "Europe/London"]}

TZValues == {None, "US/Eastern", "Bogus/Zone"}

EtcTimezones ==
  {File("absent", "", RuleNone), File("ioerror", "", RuleNone),
   File("ok", "Europe/London", RuleNone), File("ok", "Bogus/Zone", RuleNone)}

EtcLocaltimes ==
  {File("absent", "", RuleNone), File("ioerror", "", RuleNone),
   File("ok", "", RuleEastern), File("ok", "", RuleLondon), File("ok", "", RuleParis)}

TzDirs ==
  {[state |-> "ok", files |-> <<>>], [state |-> "ioerror", files |-> <<>>],
   [state |-> "ok", files |-> LocalFiles]}

PhpValues ==
  {[tzname |-> "UTC", timezone |-> 0, daylight |-> 0],
   [tzname |-> "EST", timezone |-> 18000, daylight |-> 1]}

Envs ==
  {[platform |-> p.platform, win |-> p.win, TZ |-> tz, etc_timezone |-> et,
    etc_localtime |-> el, tzdir |-> td, php |-> php] :
     p \in Platforms, tz \in TZValues, et \in EtcTimezones,
     el \in EtcLocaltimes, td \in TzDirs, php \in PhpValues}

\* What localtz_set is called with.
ZoneArgs ==
  {ZStr("US/Eastern"), ZStr("Bogus/Zone"), ZStr("/etc/localtime"),
   ZObj(utc), ZNone}

(***************************************************************************)
(* The local zone and its cache: calls of localtz() and localtz_set(z),    *)
(* on a machine whose TZ variable may change between calls.  log keeps     *)
(* what the calls so far did.                                              *)
(***************************************************************************)
MaxCalls == 3

NoGen ==
  [pc |-> "none", start |-> NoVal, delta |-> timedelta(0, 0), end |-> NoVal,
   toyield |-> NoVal, yielded |-> <<>>]

LogTz0 ==
  [ncalls |-> 0,          \* calls made
   ndetect |-> 0,         \* runs of detect_timezone
   nlocaltz |-> 0,        \* calls of localtz()
   lastset |-> NoneTz,    \* the zone of the last localtz_set that succeeded
   firstdet |-> NoneTz,   \* the zone of the first detection that succeeded
   setfirst |-> FALSE]    \* a localtz_set succeeded before any localtz()

InitTz ==
  /\ env \in Envs
  /\ _localtz = NoneTz
  /\ tzinfo_cache = {}
  /\ clock = At(2012, 1, 15, 12, 0, 0)
  /\ op = "init"
  /\ res = [exc |-> "", tz |-> NoneTz, ran |-> FALSE, warns |-> <<>>, tried |-> <<>>,
            cache0 |-> {}]
  /\ val = NoVal
  /\ log = LogTz0
  /\ gen = NoGen

CallLocaltz ==
  /\ log.ncalls < MaxCalls
  /\ \E r \in {localtz(_localtz, env, tzinfo_cache, clock)} :
        /\ _localtz' = r.lt
        /\ tzinfo_cache' = r.cache
        /\ op' = "localtz"
        /\ res' = [exc |-> r.exc, tz |-> r.tz, ran |-> r.ran, warns |-> r.warns,
                   tried |-> r.tried, cache0 |-> tzinfo_cache]
        /\ log' = [log EXCEPT
                     !.ncalls = @ + 1,
                     !.nlocaltz = @ + 1,
                     !.ndetect = IF r.ran THEN @ + 1 ELSE @,
                     !.firstdet = IF r.ran /\ r.exc = "" /\ @ = NoneTz THEN r.tz ELSE @]
  /\ UNCHANGED <<env, clock, val, gen>>

CallLocaltzSet ==
  /\ log.ncalls < MaxCalls
  /\ \E z \in ZoneArgs :
       \E r \in {localtz_set(_localtz, z, tzinfo_cache)} :
          /\ _localtz' = r.lt
          /\ op' = "localtz_set"
          /\ res' = [exc |-> r.exc, tz |-> NoneTz, ran |-> FALSE, warns |-> <<>>,
                     tried |-> <<>>, cache0 |-> tzinfo_cache]
          /\ log' = [log EXCEPT
                       !.ncalls = @ + 1,
                       !.lastset = IF r.exc = "" THEN r.lt ELSE @,
                       !.setfirst = @ \/ (r.exc = "" /\ log.nlocaltz = 0)]
  /\ UNCHANGED <<env, tzinfo_cache, clock, val, gen>>

\* os.environ["TZ"] is assigned or deleted between two calls.
SetEnvTZ ==
  /\ log.ncalls < MaxCalls
  /\ \E tz \in TZValues :
       /\ tz # env.TZ
       /\ env' = [env EXCEPT !.TZ = tz]
  /\ op' = "setenv"
  /\ UNCHANGED <<_localtz, tzinfo_cache, clock, res, val, log, gen>>

NextTz == CallLocaltz \/ CallLocaltzSet \/ SetEnvTZ

SpecTz == InitTz /\ [][NextTz]_vars

(***************************************************************************)
(* Values: a program that keeps one datetime_tz value and applies the      *)
(* constructor, the methods and the class constructors to it.  A call      *)
(* that raises leaves the value as it was.                                 *)
(***************************************************************************)
MaxOps == 2

Fields(year, month, day, hour, minute, second) ==
  [year |-> year, month |-> month, day |-> day, hour |-> hour, minute |-> minute,
   second |-> second]

\* A machine with TZ set, one whose /etc/localtime matches no known zone,
\* and one on which every strategy fails.
Machine(tz, etc_localtime, php) ==
  [platform |-> "linux", win |-> None, TZ |-> tz,
   etc_timezone |-> File("absent", "", RuleNone), etc_localtime |-> etc_localtime,
   tzdir |-> [state |-> "ok", files |-> LocalFiles], php |-> php]

ValEnvs ==
  {Machine("US/Eastern", File("absent", "", RuleNone),
           [tzname |-> "UTC", timezone |-> 0, daylight |-> 0]),
   Machine(None, File("ok", "", RuleParis),
           [tzname |-> "UTC", timezone |-> 0, daylight |-> 0]),
   Machine(None, File("absent", "", RuleNone),
           [tzname |-> "XST", timezone |-> 0, daylight |-> 0])}

\* Instants at which the program runs: after the 2012 spring-forward of
\* US/Eastern and inside its fall-back overlap.
Clocks == {At(2012, 3, 11, 12, 0, 0), At(2012, 11, 4, 5, 30, 0)}

\* Calendar fields: an ordinary time, one in the gap, one in the overlap
\* and the 30th of February.
Walls ==
  {Fields(2012, 3, 4, 1, 2, 3), Fields(2012, 3, 11, 2, 30, 0),
   Fields(2012, 11, 4, 1, 30, 0), Fields(2012, 2, 30, 0, 0, 0)}

ValidWalls == {f \in Walls : fields_valid(f, 0)}

\* The datetime values the program has at hand to pass on.
Sources(v) ==
  {Plain(fields2s(f), 0, NoneTz) : f \in ValidWalls}
    \cup (IF v = NoVal THEN {} ELSE {v, asdatetime(v, FALSE)})

ValArgs(v) ==
  {FromFields(f, 0, pos, ZAbsent, "absent") :
     f \in Walls, pos \in {ZAbsent, ZStr("US/Eastern"), ZObj(utc)}}
  \cup {FromFields(Fields(2012, 11, 4, 1, 30, 0), 0, ZAbsent, ZAbsent, "True")}
  \cup
  {FromDatetime(src, z[1], z[2], is_dst) :
     src \in Sources(v),
     z \in {<<ZAbsent, ZAbsent>>, <<ZStr("Europe/London"), ZAbsent>>,
            <<ZAbsent, ZStr("US/Eastern")>>},
     is_dst \in {"absent", "False"}}

\* Raw calendar fields with no zone argument.
raw_local(a) ==
  a.form = "fields" /\ a.pos.kind = "absent" /\ a.kwtz.kind \in {"absent", None}

ValZones == {ZStr("US/Eastern"), ZStr("Bogus/Zone"), ZObj(utc), ZStr("/etc/localtime")}

ValDeltas == {timedelta(3600, 0), timedelta(86400, 0), timedelta(0 - 5400, 0),
              timedelta(0, 1)}

ValReplaces ==
  {[names |-> n, f |-> f, us |-> 0, tzinfo |-> tz, is_dst |-> "absent"] :
     n \in {{}, {"hour", "minute"}, {"month", "day", "hour", "minute", "second"}},
     f \in {Fields(2012, 3, 11, 2, 30, 0), Fields(2012, 11, 4, 1, 30, 0)},
     tz \in {ZAbsent, ZNone, ZStr("UTC")}}

ValTimestamps ==
  {EpochTimestamp + At(2012, 3, 11, 7, 30, 0), EpochTimestamp + At(2012, 11, 4, 6, 30, 0)}

ValTexts ==
  {<<"n", "o", "w">>, <<" ", "Y", "e", "s", "t", "e", "r", "d", "a", "y">>, <<"3", " ", "h", "o", "u", "r", "s", " ", "a", "g", "o">>,
   <<"1", "h", "5", "m", " ", "a", "g", "o">>, <<"1", "x", " ", "a", "g", "o">>, <<"e", "n", "d", " ", "o", "f", " ", "t", "o", "m", "o", "r", "r", "o", "w">>,
   <<"s", "t", "a", "r", "t", " ", "o", "f", " ", "1", "0", ":", "3", "0", " ", "E", "D", "T">>, <<"0", "1", ":", "3", "0">>, <<"n", "e", "x", "t", " ", "w", "e", "e", "k">>}

InitVal ==
  /\ env \in ValEnvs
  /\ _localtz = NoneTz
  /\ tzinfo_cache = {}
  /\ clock \in Clocks
  /\ op = [name |-> "init", rawlocal |-> FALSE]
  /\ res = Raise("")
  /\ val = NoVal
  /\ log = [nops |-> 0]
  /\ gen = NoGen

\* The call `name` gave r: the value is kept when the call returned one.
ValStep(name, rawlocal, r) ==
  /\ res' = [exc |-> r.exc, v |-> r.v]
  /\ val' = IF r.exc = "" THEN r.v ELSE val
  /\ _localtz' = r.lt
  /\ tzinfo_cache' = r.cache
  /\ op' = [name |-> name, rawlocal |-> rawlocal]
  /\ log' = [nops |-> log.nops + 1]
  /\ UNCHANGED <<env, clock, gen>>

ValNew ==
  /\ log.nops < MaxOps
  /\ \E a \in ValArgs(val) :
       ValStep("new", raw_local(a), datetime_tz(a, _localtz, env, tzinfo_cache, clock))

ValAstimezone ==
  /\ log.nops < MaxOps /\ val # NoVal
  /\ \E z \in ValZones :
       ValStep("astimezone", FALSE, astimezone(val, z, _localtz, env, tzinfo_cache, clock))

ValReplace ==
  /\ log.nops < MaxOps /\ val # NoVal
  /\ \E kw \in ValReplaces :
       ValStep("replace", FALSE, replace(val, kw, _localtz, env, tzinfo_cache, clock))

ValAdd ==
  /\ log.nops < MaxOps /\ val # NoVal
  /\ \E d \in ValDeltas :
       ValStep("__add__", FALSE, __add__(val, d, _localtz, env, tzinfo_cache, clock))

ValRadd ==
  /\ log.nops < MaxOps /\ val # NoVal
  /\ \E d \in ValDeltas :
       ValStep("__radd__", FALSE, __radd__(val, d, _localtz, env, tzinfo_cache, clock))

ValSub ==
  /\ log.nops < MaxOps /\ val # NoVal
  /\ \E d \in ValDeltas :
       ValStep("__sub__", FALSE, __sub__(val, d, _localtz, env, tzinfo_cache, clock))

ValRsub ==
  /\ log.nops < MaxOps /\ val # NoVal
  /\ \E d \in ValDeltas :
       ValStep("__rsub__", FALSE, __rsub__(val, d, _localtz, env, tzinfo_cache, clock))

ValUtcnow ==
  /\ log.nops < MaxOps
  /\ ValStep("utcnow", FALSE, utcnow(_localtz, env, tzinfo_cache, clock))

ValNow ==
  /\ log.nops < MaxOps
  /\ \E z \in {ZAbsent, ZStr("Europe/London")} :
       ValStep("now", FALSE, now(z, _localtz, env, tzinfo_cache, clock))

ValUtcfromtimestamp ==
  /\ log.nops < MaxOps
  /\ \E ts \in ValTimestamps :
       ValStep("utcfromtimestamp", FALSE,
               utcfromtimestamp(ts, _localtz, env, tzinfo_cache, clock))

ValFromtimestamp ==
  /\ log.nops < MaxOps
  /\ \E ts \in ValTimestamps :
       ValStep("fromtimestamp", FALSE,
               fromtimestamp(ts, _localtz, env, tzinfo_cache, clock))

ValCombine ==
  /\ log.nops < MaxOps
  /\ \E d \in Sources(val), z \in {ZAbsent, ZStr("US/Eastern")} :
       ValStep("combine", FALSE, combine(d, z, _localtz, env, tzinfo_cache, clock))

ValSmartparse ==
  /\ log.nops < MaxOps
  /\ \E text \in ValTexts, z \in {ZAbsent, ZStr("US/Eastern")} :
       ValStep("smartparse", FALSE,
               smartparse(text, z, _localtz, env, tzinfo_cache, clock))

NextVal ==
  \/ ValNew \/ ValAstimezone \/ ValReplace
  \/ ValAdd \/ ValRadd \/ ValSub \/ ValRsub
  \/ ValUtcnow \/ ValNow \/ ValUtcfromtimestamp \/ ValFromtimestamp
  \/ ValCombine \/ ValSmartparse

SpecVal == InitVal /\ [][NextVal]_vars

(***************************************************************************)
(* One construction and one use of the value: the program may first call   *)
(* localtz(), then it builds a value, and then it replaces fields of the   *)
(* value or compares it with a naive datetime.  op keeps the arguments of  *)
(* the last call and log how the value was built.                          *)
(***************************************************************************)
\* The zone arguments of a construction: none, positional, or tzinfo=.
NewZones ==
  {<<ZAbsent, ZAbsent>>}
    \cup {<<z, ZAbsent>> : z \in {ZStr("US/Eastern"), ZStr("Bogus/Zone"),
                                  ZStr("/etc/localtime"), ZObj(utc)}}
    \cup {<<ZAbsent, z>> : z \in {ZStr("US/Eastern"), ZStr("Bogus/Zone"), ZNone}}

Flags == {"absent", None, "True", "False"}

\* The datetime values given as leading argument: naive ones, one in UTC
\* and one in the daylight period of US/Eastern.
NewSources ==
  {Plain(fields2s(f), 0, NoneTz) : f \in ValidWalls}
    \cup {Plain(At(2012, 3, 4, 1, 2, 3), 0, utc),
          fromutc(build_tzinfo("US/Eastern", RuleEastern), At(2012, 7, 1, 12, 0, 0), 0)}

NewArgs ==
  {FromFields(f, 0, z[1], z[2], is_dst) : f \in Walls, z \in NewZones, is_dst \in Flags}
    \cup {FromDatetime(src, z[1], z[2], is_dst) :
            src \in NewSources, z \in NewZones, is_dst \in Flags}

NewReplaces ==
  {[names |-> n, f |-> f, us |-> 0, tzinfo |-> tz, is_dst |-> is_dst] :
     n \in {{}, {"hour", "minute"}, {"month", "day", "hour", "minute", "second"}},
     f \in ValidWalls, tz \in {ZAbsent, ZNone, ZStr("UTC")}, is_dst \in Flags \ {None}}

Comparisons == {"==", "!=", "<", "<=", ">", ">="}

InitNew ==
  /\ env \in ValEnvs
  /\ _localtz = NoneTz
  /\ tzinfo_cache = {}
  /\ clock = At(2012, 3, 11, 12, 0, 0)
  /\ op = [name |-> "init"]
  /\ res = Raise("")
  /\ val = NoVal
  /\ log = [phase |-> "start", built |-> FromFields(NoFields, 0, ZAbsent, ZAbsent, "absent")]
  /\ gen = NoGen

\* localtz() is called before any value is built.
NewLocaltz ==
  /\ log.phase = "start"
  /\ \E r \in {localtz(_localtz, env, tzinfo_cache, clock)} :
       /\ _localtz' = r.lt
       /\ tzinfo_cache' = r.cache
       /\ res' = Raise(r.exc)
  /\ op' = [name |-> "localtz"]
  /\ log' = [log EXCEPT !.phase = "ready"]
  /\ UNCHANGED <<env, clock, val, gen>>

\* datetime_tz(*args, **kw)
NewConstruct ==
  /\ log.phase \in {"start", "ready"}
  /\ \E a \in NewArgs :
       \E r \in {datetime_tz(a, _localtz, env, tzinfo_cache, clock)} :
          /\ _localtz' = r.lt
          /\ tzinfo_cache' = r.cache
          /\ res' = [exc |-> r.exc, v |-> r.v]
          /\ val' = r.v
          /\ op' = [name |-> "new", a |-> a]
          /\ log' = [phase |-> "built", built |-> a]
  /\ UNCHANGED <<env, clock, gen>>

\* val.replace(**kw); val itself stays as it is.
NewReplace ==
  /\ log.phase = "built" /\ val # NoVal
  /\ \E kw \in NewReplaces :
       \E r \in {replace(val, kw, _localtz, env, tzinfo_cache, clock)} :
          /\ _localtz' = r.lt
          /\ tzinfo_cache' = r.cache
          /\ res' = [exc |-> r.exc, v |-> r.v]
          /\ op' = [name |-> "replace", self |-> val, kw |-> kw]
  /\ log' = [log EXCEPT !.phase = "used"]
  /\ UNCHANGED <<env, clock, val, gen>>

\* "a cmp val" and "val cmp a" for a naive datetime a.
NewCompare ==
  /\ log.phase = "built" /\ val # NoVal
  /\ \E f \in ValidWalls, cmp \in Comparisons, tzfirst \in BOOLEAN, python \in {2, 3} :
       /\ res' = IF tzfirst
                   THEN compare(val, Plain(fields2s(f), 0, NoneTz), cmp, python)
                   ELSE compare(Plain(fields2s(f), 0, NoneTz), val, cmp, python)
       /\ op' = [name |-> "compare", f |-> f, cmp |-> cmp, tzfirst |-> tzfirst]
  /\ log' = [log EXCEPT !.phase = "used"]
  /\ UNCHANGED <<env, _localtz, tzinfo_cache, clock, val, gen>>

NextNew == NewLocaltz \/ NewConstruct \/ NewReplace \/ NewCompare

SpecNew == InitNew /\ [][NextNew]_vars

(***************************************************************************)
(* iterate.between: a generator.  The call makes the generator object and  *)
(* runs none of its body; each next() runs the body up to the next yield   *)
(* or to its end.                                                          *)
(***************************************************************************)
MaxYield == 4

\* A loop test that lets a value equal to end through.
between_test_inclusive(toyield, end) ==
  end = NoVal \/ compare(toyield, end, "<=", 3).truth

\* Line 780: "end is None or toyield < end" (None is NoVal here; two aware
\* values compare alike under Python 2 and 3).
between_test(toyield, end) ==
  end = NoVal \/ compare(toyield, end, "<", 3).truth

\* Lines 780-781: the loop test with toyield, then the yield or the end.
between_loop(g, toyield) ==
  IF between_test(toyield, g.end)
    THEN [g EXCEPT !.pc = "suspended", !.toyield = toyield,
                   !.yielded = Append(@, toyield)]
    ELSE [g EXCEPT !.pc = "done", !.toyield = toyield]

\* next(): from the start of the body (line 779), or from the yield
\* (line 782, toyield += delta).
between_next(g, lt, e, cache, now_utc) ==
  IF g.pc = "created"
    THEN between_loop(g, g.start)
    ELSE between_loop(g, __add__(g.toyield, g.delta, lt, e, cache, now_utc).v)

\* between(start, delta, end)
between(start, delta, end) ==
  [pc |-> "created", start |-> start, delta |-> delta, end |-> end,
   toyield |-> NoVal, yielded |-> <<>>]

\* Lines 784-852: the convenience iterators.
weeks(start, end) == between(start, timedelta(7 * 86400, 0), end)

days(start, end) == between(start, timedelta(86400, 0), end)

hours(start, end) == between(start, timedelta(3600, 0), end)

minutes(start, end) == between(start, timedelta(60, 0), end)

\* Line 852: between(start, datetime.timedelta(minutes=1), end)
seconds(start, end) == between(start, timedelta(60, 0), end)

Presets == {"weeks", "days", "hours", "minutes", "seconds"}

\* iterate.<name>(start, end)
preset(name, start, end) ==
  CASE name = "weeks" -> weeks(start, end)
    [] name = "days" -> days(start, end)
    [] name = "hours" -> hours(start, end)
    [] name = "minutes" -> minutes(start, end)
    [] name = "seconds" -> seconds(start, end)

\* The value of calendar fields in a zone.
InZone(f, zone, e, now_utc) ==
  datetime_tz(FromFields(f, 0, ZStr(zone), ZAbsent, "absent"), NoneTz, e, {}, now_utc).v

\* Starts before the spring-forward and before the fall-back of US/Eastern,
\* and one in UTC.
IterStarts(e, now_utc) ==
  {InZone(Fields(2012, 3, 10, 2, 30, 0), "US/Eastern", e, now_utc),
   InZone(Fields(2012, 11, 3, 1, 30, 0), "US/Eastern", e, now_utc),
   InZone(Fields(2012, 3, 4, 1, 2, 3), "UTC", e, now_utc)}

IterDeltas == {OneDay, timedelta(3600, 0), timedelta(5400, 500000)}

\* Ends: none, the start, before it, and one, thirty-six and seventy-two
\* hours after it.
IterEnds(start, e, now_utc) ==
  {NoVal}
    \cup {__add__(start, d, NoneTz, e, {}, now_utc).v :
            d \in {timedelta(0, 0), td_neg(OneDay), timedelta(3600, 0),
                   timedelta(129600, 0), td_mul(3, OneDay)}}

\* Ends of the convenience iterators: none, the start, and three seconds,
\* three minutes, three hours, three days and three weeks after it.
PresetEnds(start, e, now_utc) ==
  {NoVal}
    \cup {__add__(start, d, NoneTz, e, {}, now_utc).v :
            d \in {timedelta(0, 0), timedelta(3, 0), timedelta(180, 0),
                   timedelta(10800, 0), td_mul(3, OneDay), td_mul(21, OneDay)}}

InitIter ==
  /\ env \in ValEnvs
  /\ _localtz = NoneTz
  /\ tzinfo_cache = {}
  /\ clock = At(2012, 3, 11, 12, 0, 0)
  /\ op = [name |-> "init"]
  /\ res = Raise("")
  /\ val = NoVal
  /\ log = [nops |-> 0, by |-> "none"]
  /\ gen = NoGen

IterBetween ==
  /\ gen.pc = "none"
  /\ \E start \in IterStarts(env, clock), delta \in IterDeltas :
       \E end \in IterEnds(start, env, clock) :
          gen' = between(start, delta, end)
  /\ op' = [name |-> "between"]
  /\ log' = [log EXCEPT !.by = "between"]
  /\ UNCHANGED <<env, _localtz, tzinfo_cache, clock, res, val>>

\* iterate.weeks(start, end), ..., iterate.seconds(start, end); log.by keeps
\* which one made the generator.
IterPreset ==
  /\ gen.pc = "none"
  /\ \E name \in Presets, start \in IterStarts(env, clock) :
       \E end \in PresetEnds(start, env, clock) :
          /\ gen' = preset(name, start, end)
          /\ log' = [log EXCEPT !.by = name]
  /\ op' = [name |-> "preset"]
  /\ UNCHANGED <<env, _localtz, tzinfo_cache, clock, res, val>>

IterNext ==
  /\ gen.pc \in {"created", "suspended"}
  /\ Len(gen.yielded) < MaxYield
  /\ \E g \in {between_next(gen, _localtz, env, tzinfo_cache, clock)} :
       /\ gen' = g
       /\ res' = IF g.pc = "done" THEN Raise("StopIteration") ELSE Ok(g.toyield)
  /\ op' = [name |-> "next"]
  /\ UNCHANGED <<env, _localtz, tzinfo_cache, clock, val, log>>

NextIter == IterBetween \/ IterPreset \/ IterNext

SpecIter == InitIter /\ [][NextIter]_vars

(***************************************************************************)
(* smartparse of one text, on a machine whose local zone is detected or    *)
(* cannot be.                                                              *)
(***************************************************************************)
ParseEnvs == {e \in ValEnvs : e.etc_localtime.state = "absent"}

ParseTexts ==
  {<<"3", " ", "h", "o", "u", "r", "s", " ", "a", "g", "o">>, <<"1", "h", "5", "m", " ", "a", "g", "o">>, <<"1", "x", " ", "a", "g", "o">>,
   <<"1", "h", " ", "2", "h", " ", "a", "g", "o">>, <<" ", "A", " ", "D", "a", "y", " ", "a", "n", "d", " ", "a", "n", " ", "H", "o", "u", "r", " ", "A", "G", "O", " ">>,
   <<"2", " ", "w", "e", "e", "k", "s", " ", "1", " ", "s", " ", "a", "g", "o">>, <<"9", "0", " ", "m", "i", "n", "u", "t", "e", "s", " ", "a", "g", "o">>,
   <<"1", "0", " ", "m", "i", "n", "s", " ", "a", "g", "o">>, <<"1", " ", "m", "o", "n", "t", "h", " ", "a", "g", "o">>, <<"5", " ", "m", "i", "n", "u", "t", "e", "s", " ", "3", " ", "p", "a", "r", "s", "e", "c", "s", " ", "a", "g", "o">>,
   <<"a", "g", "o">>, <<"n", "o", "w">>, <<"0", "1", ":", "3", "0">>,
   <<"e", "n", "d", " ", "o", "f", " ", "n", "o", "w">>,
   <<"e", "n", "d", " ", "o", "f", " ", "t", "o", "d", "a", "y">>,
   <<"E", "n", "d", " ", "O", "f", " ", "Y", "e", "s", "t", "e", "r", "d", "a", "y">>,
   <<"e", "n", "d", " ", "o", "f", " ", "t", "o", "m", "o", "r", "r", "o", "w">>,
   <<"s", "t", "a", "r", "t", " ", "o", "f", " ", "n", "o", "w">>,
   <<"S", "t", "a", "r", "t", " ", "o", "f", " ", "T", "o", "d", "a", "y">>,
   <<"s", "t", "a", "r", "t", " ", "o", "f", " ", "y", "e", "s", "t", "e", "r", "d", "a", "y">>,
   <<"S", "T", "A", "R", "T", " ", "O", "F", " ", "T", "O", "M", "O", "R", "R", "O", "W">>}

ParseZones == {ZAbsent, ZStr("US/Eastern"), ZStr("Europe/London"), ZObj(utc)}

InitParse ==
  /\ env \in ParseEnvs
  /\ _localtz = NoneTz
  /\ tzinfo_cache = {}
  /\ clock \in Clocks
  /\ op = [name |-> "init"]
  /\ res = Raise("")
  /\ val = NoVal
  /\ log = [nops |-> 0]
  /\ gen = NoGen

ParseText ==
  /\ log.nops = 0
  /\ \E text \in ParseTexts, z \in ParseZones :
       \E r \in {smartparse(text, z, _localtz, env, tzinfo_cache, clock)} :
          /\ _localtz' = r.lt
          /\ tzinfo_cache' = r.cache
          /\ res' = [exc |-> r.exc, v |-> r.v]
          /\ val' = r.v
          /\ op' = [name |-> "smartparse", text |-> text, tzinfo |-> z]
  /\ log' = [nops |-> 1]
  /\ UNCHANGED <<env, clock, gen>>

NextParse == ParseText

SpecParse == InitParse /\ [][NextParse]_vars

(***************************************************************************)
(* Threads.  Several threads call localtz() and localtz_set(z) on one      *)
(* machine; a thread switch may come between the test of the module        *)
(* global, the detection, the assignment of the global and the read of    *)
(* the global for the return.  log keeps each thread's position and local  *)
(* value:                                                                  *)
(*   pc "idle"    between calls                                            *)
(*      "detect"  in localtz(), after "_localtz is None" was found true    *)
(*      "write"   detect_timezone() returned tz, not yet assigned          *)
(*      "return"  before "return _localtz"                                 *)
(*      "set"     in localtz_set(), _tzinfome gave tz, not yet assigned    *)
(***************************************************************************)
NumThreads == 2

MaxThreadCalls == 2

Threads == 1..NumThreads

Thread(pc, tz) == [pc |-> pc, tz |-> tz]

\* What the threads call localtz_set with.
RaceZones == {ZObj(utc), ZStr("Europe/London"), ZStr("Bogus/Zone")}

InitRace ==
  /\ env \in ValEnvs
  /\ _localtz = NoneTz
  /\ tzinfo_cache = {}
  /\ clock = At(2012, 3, 11, 12, 0, 0)
  /\ op = [name |-> "init", t |-> 0]
  /\ res = [exc |-> "", tz |-> NoneTz]
  /\ val = NoVal
  /\ log = [threads |-> [t \in Threads |-> Thread("idle", NoneTz)],
            ncalls |-> [t \in Threads |-> 0],
            nsets |-> 0,          \* calls of localtz_set begun
            override |-> NoneTz,  \* the zone of the last localtz_set completed
            returned |-> {},      \* what the localtz() calls returned
            after |-> {}]         \* ... those that returned after a localtz_set
  /\ gen = NoGen

\* Line 159: a thread enters localtz() and tests "_localtz is None".
RaceTest(t) ==
  /\ log.threads[t].pc = "idle"
  /\ log.ncalls[t] < MaxThreadCalls
  /\ log' = [log EXCEPT
               !.ncalls[t] = @ + 1,
               !.threads[t] = Thread(IF _localtz = NoneTz THEN "detect" ELSE "return",
                                     NoneTz)]
  /\ op' = [name |-> "localtz", t |-> t]
  /\ UNCHANGED <<env, _localtz, tzinfo_cache, clock, res, val, gen>>

\* Line 160, right-hand side: detect_timezone() runs; when it raises, the
\* call ends with the exception.
RaceDetect(t) ==
  /\ log.threads[t].pc = "detect"
  /\ \E d \in {detect_timezone(env, tzinfo_cache, os_now(env, clock))} :
       /\ tzinfo_cache' = d.cache
       /\ log' = [log EXCEPT
                    !.threads[t] = IF d.exc = "" THEN Thread("write", d.tz)
                                                ELSE Thread("idle", NoneTz)]
       /\ res' = IF d.exc = "" THEN res ELSE [exc |-> d.exc, tz |-> NoneTz]
  /\ op' = [name |-> "detect", t |-> t]
  /\ UNCHANGED <<env, _localtz, clock, val, gen>>

\* Line 160, the assignment of the module global.
RaceWrite(t) ==
  /\ log.threads[t].pc = "write"
  /\ _localtz' = log.threads[t].tz
  /\ log' = [log EXCEPT !.threads[t] = Thread("return", NoneTz)]
  /\ op' = [name |-> "write", t |-> t]
  /\ UNCHANGED <<env, tzinfo_cache, clock, res, val, gen>>

\* Line 161: return _localtz.
RaceReturn(t) ==
  /\ log.threads[t].pc = "return"
  /\ res' = [exc |-> "", tz |-> _localtz]
  /\ log' = [log EXCEPT
               !.threads[t] = Thread("idle", NoneTz),
               !.returned = @ \cup {_localtz},
               !.after = IF log.override # NoneTz THEN @ \cup {_localtz} ELSE @]
  /\ op' = [name |-> "return", t |-> t]
  /\ UNCHANGED <<env, _localtz, tzinfo_cache, clock, val, gen>>

\* Line 173, right-hand side: a thread enters localtz_set(z) and
\* _tzinfome(z) returns or raises.
RaceSetResolve(t) ==
  /\ log.threads[t].pc = "idle"
  /\ log.ncalls[t] < MaxThreadCalls
  /\ \E z \in RaceZones :
       \E r \in {_tzinfome(z, tzinfo_cache)} :
          /\ log' = [log EXCEPT
                       !.ncalls[t] = @ + 1,
                       !.nsets = @ + 1,
                       !.threads[t] = IF r.exc = "" THEN Thread("set", r.tz)
                                                   ELSE Thread("idle", NoneTz)]
          /\ res' = IF r.exc = "" THEN res ELSE [exc |-> r.exc, tz |-> NoneTz]
  /\ op' = [name |-> "localtz_set", t |-> t]
  /\ UNCHANGED <<env, _localtz, tzinfo_cache, clock, val, gen>>

\* Line 173, the assignment of the module global: localtz_set completes.
RaceSetWrite(t) ==
  /\ log.threads[t].pc = "set"
  /\ _localtz' = log.threads[t].tz
  /\ log' = [log EXCEPT
               !.threads[t] = Thread("idle", NoneTz),
               !.override = log.threads[t].tz]
  /\ op' = [name |-> "set", t |-> t]
  /\ UNCHANGED <<env, tzinfo_cache, clock, res, val, gen>>

NextRace ==
  \E t \in Threads :
     \/ RaceTest(t)
     \/ RaceDetect(t)
     \/ RaceWrite(t)
     \/ RaceReturn(t)
     \/ RaceSetResolve(t)
     \/ RaceSetWrite(t)

SpecRace == InitRace /\ [][NextRace]_vars

(***************************************************************************)
(* Claims about the local zone and its detection (under SpecTz).           *)
(***************************************************************************)
\* What the strategy `name` gives on the machine e, taken alone.
StrategyResult(name, e, cache, local_now) ==
  CASE name = "windows" -> _detect_timezone_windows(e, cache)
    [] name = "environ" -> _detect_timezone_environ(e, cache)
    [] name = "etc_timezone" -> _detect_timezone_etc_timezone(e, cache)
    [] name = "etc_localtime" -> _detect_timezone_etc_localtime(e, cache)
    [] OTHER -> _detect_timezone_php(e, cache, local_now)

\* The order in which the strategies are to be attempted on the machine e.
StrategyOrder(e) ==
  (IF e.platform = "win32" THEN <<"windows">> ELSE <<>>)
    \o <<"environ", "etc_timezone", "etc_localtime", "php">>

Count(seq, x) == Cardinality({i \in 1..Len(seq) : seq[i] = x})

\* C2 (state part): when a localtz_set succeeded before the first localtz(),
\* detection never ran; and a localtz() that returns, returns the zone of the
\* last localtz_set that succeeded or, when there was none, the zone the
\* first successful detection found.
C2_Returns ==
  /\ log.setfirst => log.ndetect = 0
  /\ (op = "localtz" /\ res.exc = "") =>
       res.tz = (IF log.lastset # NoneTz THEN log.lastset ELSE log.firstdet)

\* C2 (step part): detect_timezone runs only inside a localtz() call made
\* while the cached local zone is unset.
C2_DetectsOnlyUnset ==
  log'.ndetect # log.ndetect => (op' = "localtz" /\ _localtz = NoneTz)

\* C2: in any sequence of localtz() and localtz_set(z) calls, detection runs
\* only inside a localtz() made while the cache is unset, never after a
\* localtz_set that succeeded first, and every localtz() returns the zone of
\* the last successful localtz_set, else of the first successful detection.
C2_LocalZoneCache == [][C2_DetectsOnlyUnset]_vars /\ []C2_Returns

\* C2 witness: detection succeeded, a later localtz_set overrode it with
\* another zone, and localtz() returned the override.
C2_Witness ==
  /\ op = "localtz"
  /\ res.exc = ""
  /\ ~res.ran
  /\ log.firstdet # NoneTz
  /\ log.lastset # NoneTz
  /\ log.lastset # log.firstdet
  /\ res.tz = log.lastset

\* C3: a run of detect_timezone attempts the strategies in the fixed order
\* (the platform-native query on win32 only), attempts a strategy only when
\* every earlier one yielded no zone, returns the zone of the first strategy
\* that yields one and attempts none after it, and emits the 'worst
\* detection method' warning exactly when the fifth strategy is attempted,
\* before that strategy's own warnings.
C3_CascadeOrder ==
  (op = "localtz" /\ res.ran) =>
    /\ Len(res.tried) \in 1..Len(StrategyOrder(env))
    /\ \A i \in 1..Len(res.tried) : res.tried[i] = StrategyOrder(env)[i]
    /\ \A i \in 1..Len(res.tried) :
         \E r \in {StrategyResult(res.tried[i], env, res.cache0, os_now(env, clock))} :
           IF i < Len(res.tried)
             THEN ~ends_cascade(r)
             ELSE res.exc = "" => (r.exc = "" /\ r.tz # NoneTz /\ r.tz = res.tz)
    /\ Count(res.warns, "worst detection method")
         = (IF Count(res.tried, "php") = 1 THEN 1 ELSE 0)
    /\ \A i, j \in 1..Len(res.warns) :
         (res.warns[i] = "worst detection method"
            /\ res.warns[j] = "multiple matches for the timezone") => i < j

\* C3 witness: on win32 all five strategies were attempted and the last one
\* yielded the zone.
C3_Witness ==
  /\ op = "localtz"
  /\ res.ran
  /\ res.exc = ""
  /\ res.tried = <<"windows", "environ", "etc_timezone", "etc_localtime", "php">>
  /\ res.tz # NoneTz

\* C4, as claimed: a failure inside a strategy never escapes detect_timezone
\* (it is a warning, and the next strategy is attempted); detect_timezone
\* raises only UnknownTimeZoneError, and only when every strategy has been
\* attempted and yielded no zone.
C4_NoFailureEscapes ==
  (op = "localtz" /\ res.ran) =>
    /\ res.exc \in {"", "UnknownTimeZoneError"}
    /\ res.exc = "UnknownTimeZoneError" =>
         (res.tried = StrategyOrder(env) /\ res.tz = NoneTz)
    /\ (env.TZ = "Bogus/Zone" /\ Count(res.tried, "environ") = 1) =>
         (Count(res.warns, "TZ not understood") = 1
            /\ Count(res.tried, "etc_timezone") = 1)
    /\ (env.etc_timezone.state = "ioerror" /\ Count(res.tried, "etc_timezone") = 1) =>
         (Count(res.warns, "/etc/timezone not accessible") = 1
            /\ Count(res.tried, "etc_localtime") = 1)
    /\ (env.etc_localtime.state = "ioerror" /\ Count(res.tried, "etc_localtime") = 1) =>
         Count(res.tried, "php") = 1

\* The rule /etc/localtime was parsed into.
ParsedLocaltime(e) == build_tzinfo("/etc/localtime", e.etc_localtime.rule)

\* The catalog zones whose rule table equals the parsed one, in the local
\* copy of the rule database when there is one, else in the catalog.
MatchingZones(e) ==
  IF Len(e.tzdir.files) > 0
    THEN {n \in all_timezones_set :
            \E i \in 1..Len(e.tzdir.files) :
               /\ e.tzdir.files[i].name = n
               /\ e.tzdir.files[i].rule = e.etc_localtime.rule}
    ELSE {n \in all_timezones_set : zone_rule(n) = e.etc_localtime.rule}

\* The smallest of a set of catalog names.
SmallestName(names) ==
  CHOOSE n \in names : \A m \in names : zone_index(n) <= zone_index(m)

\* The run of detect_timezone attempted the /etc/localtime strategy, the
\* file was there and was parsed, and the rule database could be read.
LocaltimeParsed ==
  /\ op = "localtz"
  /\ res.ran
  /\ Count(res.tried, "etc_localtime") = 1
  /\ env.etc_localtime.state = "ok"
  /\ env.tzdir.state = "ok"

\* C13: when /etc/localtime exists and is parsed, the strategy yields the
\* catalog zone with the smallest name among the zones whose rule equals the
\* parsed one (warning when there are several), or the raw parsed rule when
\* there is none (with a warning), and in each of these cases the raw
\* parsed rule is then registered in the provider's cache under the key
\* "/etc/localtime".
C13_EtcLocaltime ==
  LocaltimeParsed =>
    /\ res.exc = ""
    /\ res.tried[Len(res.tried)] = "etc_localtime"
    /\ MatchingZones(env) # {} =>
          /\ res.tz.zone = SmallestName(MatchingZones(env))
          /\ Count(res.warns, "no matches for /etc/localtime") = 0
    /\ Count(res.warns, "multiple matches for /etc/localtime")
         = (IF Cardinality(MatchingZones(env)) > 1 THEN 1 ELSE 0)
    /\ MatchingZones(env) = {} =>
          /\ res.tz = ParsedLocaltime(env)
          /\ Count(res.warns, "no matches for /etc/localtime") = 1
    /\ [key |-> "/etc/localtime", rule |-> env.etc_localtime.rule] \in tzinfo_cache

(***************************************************************************)
(* Claims about the values (under SpecVal).                                *)
(***************************************************************************)
\* C1: every value a call returns is a datetime_tz whose tzinfo is not
\* None, after any sequence of calls; and the value the constructor returns
\* for raw calendar fields with no zone argument is in the zone localtz()
\* returns, which is the zone the module global holds after the call.
C1_AlwaysAware ==
  /\ (op.name # "init" /\ res.exc = "") =>
        (res.v.cls = "datetime_tz" /\ res.v.tzinfo # NoneTz)
  /\ val # NoVal => (val.cls = "datetime_tz" /\ val.tzinfo # NoneTz)
  /\ (op.name = "new" /\ op.rawlocal /\ res.exc = "") =>
        /\ _localtz # NoneTz
        /\ res.v.tzinfo.zone = _localtz.zone
        /\ res.v.tzinfo.rule = _localtz.rule

\* A value was built from raw calendar fields in the local zone after an
\* earlier call had already returned one.
C1_Witness ==
  /\ op.name = "new" /\ op.rawlocal /\ res.exc = ""
  /\ log.nops >= 2
  /\ res.v.tzinfo.zone = "/etc/localtime"

(***************************************************************************)
(* Claims about one construction and one use of the value (under SpecNew). *)
(***************************************************************************)
\* The zone argument of a construction: the trailing positional zone or
\* else the tzinfo= option.
ZoneArg(a) == IF a.pos.kind # "absent" THEN a.pos ELSE a.kwtz

ZoneGiven(a) == ZoneArg(a).kind \notin {"absent", None}

UnknownZoneString(a) ==
  ZoneArg(a).kind = "str" /\ ZoneArg(a).name \notin all_timezones_set

\* C5: with a datetime as leading argument, a zone argument together with
\* a source that carries a zone fails with TypeError, and so does no zone
\* argument with a source that carries none; a zone argument that is a
\* string not in the catalog fails with UnknownTimeZoneError (this is taken
\* to come before the conflict); a failing construction produces no value.
C5_ConstructorErrors ==
  op.name = "new" =>
    /\ (op.a.form = "datetime" /\ ZoneGiven(op.a) /\ ~UnknownZoneString(op.a)
          /\ op.a.src.tzinfo # NoneTz) => res.exc = "TypeError"
    /\ (op.a.form = "datetime" /\ ~ZoneGiven(op.a) /\ op.a.src.tzinfo = NoneTz) =>
          res.exc = "TypeError"
    /\ UnknownZoneString(op.a) => res.exc = "UnknownTimeZoneError"
    /\ res.exc # "" => (res.v = NoVal /\ val = NoVal)

\* The zone a zone-less fieldset is localized into: the zone argument, or
\* else, for raw calendar fields, the local zone.
TargetZone(a) ==
  CASE ZoneArg(a).kind = "tzinfo" -> ZoneArg(a).tz
    [] ZoneArg(a).kind = "str" /\ ZoneArg(a).name \in all_timezones_set ->
         build_tzinfo(ZoneArg(a).name, zone_rule(ZoneArg(a).name))
    [] ZoneArg(a).kind \in {"absent", None} /\ a.form = "fields" -> _localtz
    [] OTHER -> NoneTz

\* The local time of the fieldset given.
WallOf(a) == IF a.form = "fields" THEN fields2s(a.f) ELSE a.src.s

ZoneLess(a) ==
  \/ a.form = "fields" /\ fields_valid(a.f, a.us)
  \/ a.form = "datetime" /\ a.src.tzinfo = NoneTz

\* The local times that occur twice, and those that do not occur.
InOverlap(tz, s) ==
  tz.rule.kind = "dst" /\ tz.rule.to + tz.rule.std <= s
    /\ s < tz.rule.to + tz.rule.std + tz.rule.save

InGap(tz, s) ==
  tz.rule.kind = "dst" /\ tz.rule.from + tz.rule.std <= s
    /\ s < tz.rule.from + tz.rule.std + tz.rule.save

\* C6: when a zone-less fieldset (raw calendar fields or a naive source) is
\* localized: in an overlap without an is_dst flag the construction fails
\* with AmbiguousTimeError; with a flag it succeeds and the flag selects the
\* instant; in a gap it fails with NonExistentTimeError.
C6_Localization ==
  (op.name = "new" /\ ZoneLess(op.a) /\ TargetZone(op.a) # NoneTz) =>
    /\ (InOverlap(TargetZone(op.a), WallOf(op.a)) /\ op.a.is_dst \in {"absent", None}) =>
          res.exc = "AmbiguousTimeError"
    /\ (InOverlap(TargetZone(op.a), WallOf(op.a)) /\ op.a.is_dst \in {"True", "False"}) =>
          /\ res.exc = ""
          /\ res.v.s = WallOf(op.a)
          /\ res.v.is_dst = (op.a.is_dst = "True")
          /\ res.v.tzinfo.utcoffset =
               TargetZone(op.a).rule.std
                 + (IF op.a.is_dst = "True" THEN TargetZone(op.a).rule.save ELSE 0)
    /\ InGap(TargetZone(op.a), WallOf(op.a)) => res.exc = "NonExistentTimeError"

\* C7: a naive datetime and a datetime_tz built from calendar fields with no
\* zone argument compare by their calendar fields, in both operand orders,
\* and no comparison raises.
C7_NaiveCompare ==
  (op.name = "compare" /\ raw_local(log.built)) =>
    /\ res.exc = ""
    /\ res.truth = IF op.tzfirst
                     THEN cmp_keys(<<val.s, val.us>>, <<fields2s(op.f), 0>>, op.cmp)
                     ELSE cmp_keys(<<fields2s(op.f), 0>>, <<val.s, val.us>>, op.cmp)

\* The kw of a replace() call without arguments.
NoArguments(kw) == kw.names = {} /\ kw.tzinfo.kind = "absent" /\ kw.is_dst = "absent"

\* C10: replace(tzinfo=None) fails with TypeError and gives no value; a
\* replace that returns, returns a datetime_tz with the named fields
\* replaced, in the given tzinfo or else in v's zone, and leaves v as it
\* was; and v.replace() with no arguments returns a value equal to v.
C10_Replace ==
  op.name = "replace" =>
    /\ op.kw.tzinfo.kind = None => (res.exc = "TypeError" /\ res.v = NoVal)
    /\ (op.kw.tzinfo.kind # None /\ res.exc = "") =>
          /\ res.v.cls = "datetime_tz"
          /\ timetuple(res.v.s) = replaced_fields(timetuple(op.self.s), op.kw)
          /\ res.v.tzinfo.zone = (IF op.kw.tzinfo.kind = "absent"
                                    THEN op.self.tzinfo.zone ELSE op.kw.tzinfo.name)
    /\ val = op.self
    /\ NoArguments(op.kw) => (res.exc = "" /\ res.v = op.self)

(***************************************************************************)
(* Claims about iterate.between (under SpecIter).                          *)
(***************************************************************************)
\* x is an earlier instant than y.
Earlier(x, y) == utc_s(x) < utc_s(y) \/ (utc_s(x) = utc_s(y) /\ x.us < y.us)

\* start + k*delta
Kth(g, k) == __add__(g.start, td_mul(k, g.delta), NoneTz, env, {}, clock).v

\* C8: between(start, delta, end) with delta > 0 yields, in order, the
\* values start + k*delta (k = 0, 1, 2, ...) that are earlier than end and
\* then ends: end itself is not yielded, nothing is yielded when start is
\* not earlier than end, a step of one day up to start + 3 days yields
\* start, start + 1 day and start + 2 days, and with end=None the generator
\* never ends.
C8_Between ==
  gen.pc # "none" =>
    /\ \A i \in 1..Len(gen.yielded) :
          /\ gen.yielded[i] = Kth(gen, i - 1)
          /\ gen.end # NoVal => Earlier(gen.yielded[i], gen.end)
    /\ gen.pc = "done" =>
          /\ gen.end # NoVal
          /\ ~Earlier(Kth(gen, Len(gen.yielded)), gen.end)
    /\ (gen.pc = "done" /\ ~Earlier(gen.start, gen.end)) => gen.yielded = <<>>
    /\ (gen.pc = "done" /\ gen.delta = OneDay /\ gen.end = Kth(gen, 3)) =>
          gen.yielded = <<gen.start, Kth(gen, 1), Kth(gen, 2)>>

\* The days from before the spring-forward of US/Eastern up to three days
\* later were yielded and the generator has ended.
C8_Witness ==
  /\ gen.pc = "done"
  /\ gen.delta = OneDay
  /\ Len(gen.yielded) = 3
  /\ gen.start.tzinfo.zone = "US/Eastern"
  /\ gen.yielded[1].is_dst # gen.yielded[3].is_dst
  /\ res.exc = "StopIteration"

\* The step the name of a convenience iterator says.
NamedStep(name) ==
  CASE name = "weeks" -> timedelta(7 * 86400, 0)
    [] name = "days" -> timedelta(86400, 0)
    [] name = "hours" -> timedelta(3600, 0)
    [] name = "minutes" -> timedelta(60, 0)
    [] name = "seconds" -> timedelta(1, 0)

\* start + k steps of the iterator's name
NamedKth(g, name, k) ==
  __add__(g.start, td_mul(k, NamedStep(name)), NoneTz, env, {}, clock).v

\* C12: iterate.weeks, days, hours, minutes and seconds yield what
\* iterate.between yields with a step of 7 days, 1 day, 1 hour, 1 minute and
\* 1 second: the values start + k steps that are earlier than end; so
\* consecutive values of iterate.seconds are one second apart.
C12_Presets ==
  log.by \in Presets =>
    /\ \A i \in 1..Len(gen.yielded) :
          gen.yielded[i] = NamedKth(gen, log.by, i - 1)
    /\ gen.pc = "done" =>
          ~Earlier(NamedKth(gen, log.by, Len(gen.yielded)), gen.end)
    /\ log.by = "seconds" =>
          \A i \in 1..(Len(gen.yielded) - 1) :
             utc_s(gen.yielded[i + 1]) - utc_s(gen.yielded[i]) = 1

(***************************************************************************)
(* Claims about smartparse (under SpecParse).                              *)
(***************************************************************************)
\* The seconds in one of the units of tocheck, up to the weeks.
UnitSeconds == <<1, 60, 3600, 86400, 604800>>

\* The text before the trailing "ago": its (amount, unit) pairs.
AgoPairs(text) == finditer(ago_text(lower(strip(text))))

PairBit(pair) == unit_bit(strip(pair.unit))

RECURSIVE PairsSeconds(_)
\* The sum of the pairs, in seconds.
PairsSeconds(pairs) ==
  IF pairs = <<>>
    THEN 0
    ELSE int(Head(pairs).amount) * UnitSeconds[PairBit(Head(pairs))]
           + PairsSeconds(Tail(pairs))

\* The current instant in the target zone.
Anchor(tzinfo) == now(tzinfo, _localtz, env, tzinfo_cache, clock)

\* C9: for a text with a trailing "ago", smartparse returns the current
\* instant in the target zone minus the sum of all the (amount, unit) pairs
\* before the "ago", pairs of the same unit adding up; a pair whose unit is
\* none of the spellings of seconds ... years makes it fail with ValueError.
\* (The sum is checked for the units up to the weeks.)
C9_Ago ==
  (/\ op.name = "smartparse"
   /\ contains(lower(strip(op.text)), <<"a", "g", "o">>)
   /\ Anchor(op.tzinfo).exc = "") =>
    /\ (\E i \in 1..Len(AgoPairs(op.text)) : PairBit(AgoPairs(op.text)[i]) = 0) =>
          res.exc = "ValueError"
    /\ (\A i \in 1..Len(AgoPairs(op.text)) : PairBit(AgoPairs(op.text)[i]) \in 1..5) =>
          /\ res.exc = ""
          /\ res.v.cls = "datetime_tz"
          /\ res.v.tzinfo.zone = Anchor(op.tzinfo).v.tzinfo.zone
          /\ utc_s(res.v) = utc_s(Anchor(op.tzinfo).v) - PairsSeconds(AgoPairs(op.text))
          /\ res.v.us = Anchor(op.tzinfo).v.us
    /\ (\A i \in 1..Len(AgoPairs(op.text)) : PairBit(AgoPairs(op.text)[i]) # 0) =>
          res.exc = ""

EndOf == <<"e", "n", "d", " ", "o", "f", " ">>
StartOf == <<"s", "t", "a", "r", "t", " ", "o", "f", " ">>

\* The word after the prefix "end of " or "start of ", in lowercase.
PrefixWord(text) ==
  IF startswith(lower(text), EndOf)
    THEN from_index(lower(text), 7)
    ELSE from_index(lower(text), 9)

DayWords == {<<"n", "o", "w">>, <<"t", "o", "d", "a", "y">>, <<"y", "e", "s", "t", "e", "r", "d", "a", "y">>, <<"t", "o", "m", "o", "r", "r", "o", "w">>}

\* The text is "end of X" or "start of X" for one of the four day words.
PrefixText(text) ==
  /\ startswith(lower(text), EndOf) \/ startswith(lower(text), StartOf)
  /\ PrefixWord(text) \in DayWords

\* The shift in days the word stands for.
DayShift(word) ==
  IF word = <<"y", "e", "s", "t", "e", "r", "d", "a", "y">> THEN 0 - 1
  ELSE IF word = <<"t", "o", "m", "o", "r", "r", "o", "w">> THEN 1
  ELSE 0

\* C11: smartparse("end of X"), X one of now, today, yesterday, tomorrow in
\* any letter case, returns 23:59:59.999999 on the current date of the target
\* zone shifted by 0, 0, -1, +1 days, and smartparse("start of X") returns
\* 00:00:00.000000 on that date.
C11_EndAndStart ==
  (/\ op.name = "smartparse"
   /\ PrefixText(op.text)
   /\ Anchor(op.tzinfo).exc = "") =>
    /\ res.exc = ""
    /\ res.v.cls = "datetime_tz"
    /\ res.v.tzinfo.zone = Anchor(op.tzinfo).v.tzinfo.zone
    /\ res.v.s \div 86400
         = (Anchor(op.tzinfo).v.s \div 86400) + DayShift(PrefixWord(op.text))
    /\ startswith(lower(op.text), EndOf) =>
         (res.v.s % 86400 = 86399 /\ res.v.us = 999999)
    /\ startswith(lower(op.text), StartOf) =>
         (res.v.s % 86400 = 0 /\ res.v.us = 0)

(***************************************************************************)
(* Claims about the threads (under SpecRace).                              *)
(***************************************************************************)
\* The zone detection finds on the machine.
DetectedZone == detect_timezone(env, tzinfo_cache, os_now(env, clock)).tz

\* One localtz_set was called, and it has completed.
OneOverride == log.nsets = 1 /\ log.override # NoneTz

\* C14: when localtz() and localtz_set(z) of several threads interleave
\* between the read of the cached zone, the detection and the write of the
\* cached zone, localtz() calls on an unset cache all return the one
\* detected zone, and once a localtz_set(z) has completed every localtz()
\* that returns afterwards returns z and the cached zone is z: a detection
\* in flight does not overwrite the override.
C14_RaceIsBenign ==
  /\ log.nsets = 0 => log.returned \subseteq {DetectedZone}
  /\ OneOverride =>
       /\ _localtz = log.override
       /\ log.after \subseteq {log.override}

====
